---- MODULE Spec2Model ----
(***************************************************************************)
(* Detection engine of the conveyor-belt counter inspection backend:       *)
(* CameraService (camera_service.py) and the vision handlers of app.py.    *)
(*                                                                         *)
(* Image processing done by OpenCV is not computed here.  A frame is       *)
(* described by what the OpenCV calls report for it: the regions found by  *)
(* findContours / SimpleBlobDetector with their measured area, bounding    *)
(* box, solidity and circularity.  Fractions (confidence, solidity,        *)
(* circularity, aspect ratio) are kept as integers in hundredths.          *)
(***************************************************************************)
EXTENDS Integers, Sequences, FiniteSets, TLC

VARIABLES
    camera,              \* self.camera: "None", "opened" or "unopened" handle
    bg_subtractor,       \* self.bg_subtractor: "None" or "MOG2"
    bg_initialized,      \* self.bg_initialized
    bg_learning_frames,  \* self.bg_learning_frames
    lastOp,              \* name of the operation that ran last
    lastArgs,            \* arguments of the last operation, if a detection call
    before,              \* the background model when the last operation began
    processed,           \* frames put through the subtractor since it was created
    survivors,           \* candidates of that call before the keep-best step
    result,              \* what detect_objects returned in the last operation
    response,            \* response body of the last operation, if a handler
    merge_in,            \* argument list of the last _merge_nearby_objects call
    merge_threshold,     \* its threshold
    merge_out,           \* its return value
    score_in,            \* measurements given to the confidence formulas alone
    score_out,           \* the confidences computed from them
    probe,               \* frame, method and params of a repeated detection call
    probe_runs,          \* what the repeated call returned, call by call
    fault_bit_enabled,   \* config['vision']['fault_bit_enabled']
    fault_bit_bit,       \* config['vision']['fault_bit_bit']
    plc_available,       \* plc_client exists and plc_client.client is not None
    plc_connected,       \* plc_client.connected
    plc_link,            \* plc_client.client.get_connected()
    m_byte,              \* the Merker byte of the controller, bit by bit
    connect_attempts,    \* calls of client.connect made so far
    plc_before,          \* controller state when the last operation began
    plc_result,          \* what write_plc_fault_bit returned in the last operation
    lock,                \* self.lock: the thread holding it, or "free"
    pc,                  \* where each thread stands
    path,                \* the route each thread is serving
    ret,                 \* what the CameraService method returned to each thread
    req,                 \* frame held and frames used by each detection request
    device_seq,          \* number of the newest frame the device has delivered
    last_frame,          \* self.last_frame (number of the frame, 0 for None)
    frame_time,          \* self.frame_time (number of the frame it was set for)
    crop_in,             \* candidates given to the archiving loop, disk outcomes
    crop_out,            \* what the archiving loop cropped, wrote and returned
    locals,              \* local variables of the call each thread is inside
    subtractors,         \* cv2.createBackgroundSubtractorMOG2 calls made so far
    poll_running,        \* app.py global poll_running
    poll_thread,         \* app.py global poll_thread: 0 for None, else the thread
    poll_loops           \* the poll_loop threads started so far, in order

vars == <<camera, bg_subtractor, bg_initialized, bg_learning_frames, lastOp,
          lastArgs, before, processed, survivors, result, response,
          merge_in, merge_threshold, merge_out, score_in, score_out, probe,
          probe_runs, fault_bit_enabled, fault_bit_bit, plc_available,
          plc_connected, plc_link, m_byte, connect_attempts, plc_before,
          plc_result, lock, pc, path, ret, req, device_seq, last_frame,
          frame_time, crop_in, crop_out, locals, subtractors, poll_running,
          poll_thread, poll_loops>>

serviceVars == <<camera, bg_subtractor, bg_initialized, bg_learning_frames>>
mergeVars == <<merge_in, merge_threshold, merge_out>>
scoreVars == <<score_in, score_out>>
probeVars == <<probe, probe_runs>>
plcVars == <<fault_bit_enabled, fault_bit_bit, plc_available, plc_connected,
             plc_link, m_byte, connect_attempts, plc_before, plc_result>>
threadVars == <<lock, pc, path, ret, req, device_seq, last_frame, frame_time>>
idleVars == <<scoreVars, probeVars, plcVars, threadVars>>
cropVars == <<crop_in, crop_out>>
raceVars == <<locals, subtractors>>
pollVars == <<poll_running, poll_thread, poll_loops>>
laterVars == <<cropVars, raceVars, pollVars>>
otherVars == <<mergeVars, laterVars>>

----------------------------------------------------------------------------
(* Bounds of the model *)

MaxRegions == 2      \* regions in one frame
MaxBoxes == 3        \* boxes in one answer of the vision service
MaxProcessed == 32   \* the history counter "processed" saturates here
MaxMerge == 3        \* length of the lists given to _merge_nearby_objects alone
MaxOtherCalls == 2   \* detection calls made around a repeated call
MaxConnects == 2     \* connection attempts to the controller
MaxCaptures == 2     \* frames the device delivers while threads are followed
MaxCrops == 2        \* candidates given to the archiving loop alone
MaxLoops == 3        \* poll_loop threads started while the handlers are followed

(* Program constants *)

BG_LEARN_FRAMES == 30        \* camera_service.py:206
DEFAULT_MIN_AREA == 5000     \* camera_service.py:168
DEFAULT_MAX_AREA == 100000   \* camera_service.py:169
DEFAULT_MIN_CONFIDENCE == 70 \* camera_service.py:176 (0.7)
CONTOUR_CONFIDENCE == 70     \* camera_service.py:291 (0.7)
BLOB_CONFIDENCE == 60        \* camera_service.py:325 (0.6)
MIN_CIRCULARITY == 60        \* camera_service.py:373 (0.6)
COMBINED_MERGE_THRESHOLD == 50  \* camera_service.py:406
FRAME_WIDTH == 640           \* camera_service.py:20
FRAME_HEIGHT == 480          \* camera_service.py:20
SAVE_PADDING == 20           \* app.py:191
DEFAULT_KERNEL_SIZE == 7     \* camera_service.py:351

----------------------------------------------------------------------------
(* Small helpers *)

Min2(a, b) == IF a < b THEN a ELSE b
Max2(a, b) == IF a > b THEN a ELSE b

Range(s) == {s[i] : i \in 1..Len(s)}

RECURSIVE SeqMin(_)
SeqMin(s) == IF Len(s) = 1 THEN s[1] ELSE Min2(s[1], SeqMin(Tail(s)))

RECURSIVE SeqMax(_)
SeqMax(s) == IF Len(s) = 1 THEN s[1] ELSE Max2(s[1], SeqMax(Tail(s)))

RECURSIVE SeqSum(_)
SeqSum(s) == IF Len(s) = 0 THEN 0 ELSE s[1] + SeqSum(Tail(s))

RECURSIVE DistinctSeqs(_, _)
\* the sequences of at most n distinct elements of S
DistinctSeqs(S, n) ==
    IF n = 0 THEN {<<>>}
    ELSE LET prev == DistinctSeqs(S, n - 1)
             ext(q) == {Append(q, e) : e \in S \ Range(q)}
         IN  prev \cup UNION {ext(q) : q \in {p \in prev : Len(p) = n - 1}}

\* r with field k set to v
WithField(r, k, v) ==
    [f \in DOMAIN r \cup {k} |-> IF f = k THEN v ELSE r[f]]

----------------------------------------------------------------------------
(* Frames: what OpenCV reports for the image *)

\* A region of the image: bounding box (x, y, w, h), contour area, solidity
\* and circularity in hundredths, whether the learned background model puts
\* it in the foreground mask, whether SimpleBlobDetector reports it.
Region(x, y, w, h, area, sol, circ, fg, blob) ==
    [x |-> x, y |-> y, w |-> w, h |-> h, area |-> area, sol |-> sol,
     circ |-> circ, fg |-> fg, blob |-> blob]

Regions ==
    { Region(100, 100, 300, 300, 70000, 98, 90, TRUE, TRUE),   \* large moving disc
      Region(400, 200, 240, 240, 50000, 100, 88, TRUE, TRUE),  \* smaller moving disc
      Region(50, 300, 200, 100, 15000, 70, 40, FALSE, FALSE) } \* static oblong part

NoFrame == [kind |-> "None", regions |-> <<>>]
BadFrame == [kind |-> "malformed", regions |-> <<>>]   \* cv2.cvtColor raises on it
Images == {[kind |-> "image", regions |-> r] : r \in DistinctSeqs(Regions, MaxRegions)}
Frames == Images \cup {BadFrame}

Methods == {"contour", "blob", "combined", "background", "circle"}

\* params of detect_objects; the keys not listed keep their defaults
Params ==
    [use_background_subtraction : BOOLEAN,
     min_confidence : {DEFAULT_MIN_CONFIDENCE, 80},
     min_object_area : {DEFAULT_MIN_AREA},
     max_object_area : {DEFAULT_MAX_AREA}]

----------------------------------------------------------------------------
(* Candidate construction, camera_service.py *)

\* aspect_ratio_min < float(w) / h < aspect_ratio_max, bounds in hundredths
AspectBetween(w, h, lo, hi) ==
    /\ IF h > 0 THEN lo * h < w * 100 ELSE lo < 0
    /\ IF h > 0 THEN w * 100 < hi * h ELSE 0 < hi

AspectRatio(w, h) == IF h > 0 THEN (w * 100 + h \div 2) \div h ELSE 0

\* min(area / max_object_area, 1.0), in hundredths
AreaConfidence(area, max_area) == Min2((area * 100) \div max_area, 100)

\* mutant: the two weights do not add up to 1
BackgroundScoreHeavy(area, sol, max_area) ==
    60 * AreaConfidence(area, max_area) + 60 * sol

\* area_confidence * 0.6 + solidity * 0.4, in ten-thousandths
BackgroundScore(area, sol, max_area) ==
    60 * AreaConfidence(area, max_area) + 40 * sol

\* circularity * 0.7 + size_confidence * 0.3, in ten-thousandths
CircleScore(area, circ, max_area) ==
    70 * circ + 30 * AreaConfidence(area, max_area)

\* round(confidence, 2): ten-thousandths to hundredths
Round2(score) == (score + 50) \div 100

AreaInRange(area, p) ==
    p.min_object_area < area /\ area < p.max_object_area

BackgroundCandidate(r, p) ==
    [type |-> "object", x |-> r.x, y |-> r.y, width |-> r.w, height |-> r.h,
     area |-> r.area, center |-> <<r.x + r.w \div 2, r.y + r.h \div 2>>,
     confidence |-> Round2(BackgroundScore(r.area, r.sol, p.max_object_area)),
     method |-> "background", aspect_ratio |-> AspectRatio(r.w, r.h),
     solidity |-> r.sol]

BackgroundAccepts(r, p) ==
    /\ r.fg
    /\ AreaInRange(r.area, p)
    /\ AspectBetween(r.w, r.h, 20, 500)
    /\ BackgroundScore(r.area, r.sol, p.max_object_area) >= p.min_confidence * 100

ContourCandidate(r, p) ==
    [type |-> "object", x |-> r.x, y |-> r.y, width |-> r.w, height |-> r.h,
     area |-> r.area, center |-> <<r.x + r.w \div 2, r.y + r.h \div 2>>,
     confidence |-> CONTOUR_CONFIDENCE, method |-> "contour"]

ContourAccepts(r, p) ==
    /\ AreaInRange(r.area, p)
    /\ AspectBetween(r.w, r.h, 20, 500)

\* keypoint at the region's centre, size = its width
BlobCandidate(r, p) ==
    LET cx == r.x + r.w \div 2
        cy == r.y + r.h \div 2
        size == r.w
    IN  [type |-> "object", x |-> cx - size \div 2, y |-> cy - size \div 2,
         width |-> size, height |-> size,
         area |-> (314 * size * size) \div 400, center |-> <<cx, cy>>,
         confidence |-> BLOB_CONFIDENCE, method |-> "blob"]

BlobAccepts(r, p) ==
    /\ r.blob
    /\ p.min_object_area <= r.area /\ r.area < p.max_object_area

CircleCandidate(r, p) ==
    [type |-> "circle", x |-> r.x, y |-> r.y, width |-> r.w, height |-> r.h,
     area |-> r.area, center |-> <<r.x + r.w \div 2, r.y + r.h \div 2>>,
     radius |-> r.w \div 2, circularity |-> r.circ,
     confidence |-> Round2(CircleScore(r.area, r.circ, p.max_object_area)),
     method |-> "circle", aspect_ratio |-> AspectRatio(r.w, r.h)]

CircleAccepts(r, p) ==
    /\ AreaInRange(r.area, p)
    /\ r.circ >= MIN_CIRCULARITY
    /\ AspectBetween(r.w, r.h, 70, 130)
    /\ CircleScore(r.area, r.circ, p.max_object_area) >= p.min_confidence * 100

\* for contour in contours: if <accepted>: objects.append(<candidate>)
BackgroundObjects(regions, p) ==
    LET kept == SelectSeq(regions, LAMBDA r : BackgroundAccepts(r, p))
    IN  [i \in 1..Len(kept) |-> BackgroundCandidate(kept[i], p)]

ContourObjects(regions, p) ==
    LET kept == SelectSeq(regions, LAMBDA r : ContourAccepts(r, p))
    IN  [i \in 1..Len(kept) |-> ContourCandidate(kept[i], p)]

\* for kp in keypoints: objects.append(<candidate>)
BlobObjects(regions, p) ==
    LET kept == SelectSeq(regions, LAMBDA r : BlobAccepts(r, p))
    IN  [i \in 1..Len(kept) |-> BlobCandidate(kept[i], p)]

CircleObjects(regions, p) ==
    LET kept == SelectSeq(regions, LAMBDA r : CircleAccepts(r, p))
    IN  [i \in 1..Len(kept) |-> CircleCandidate(kept[i], p)]

----------------------------------------------------------------------------
(* CameraService._merge_nearby_objects *)

\* np.sqrt(dx**2 + dy**2) < threshold
Near(a, b, threshold) ==
    LET dx == a.center[1] - b.center[1]
        dy == a.center[2] - b.center[2]
    IN  threshold > 0 /\ dx * dx + dy * dy < threshold * threshold

\* the group seeded by objects[i]: i, then every j not yet used and near i
GroupAt(objects, threshold, i, used) ==
    <<i>> \o SelectSeq([j \in 1..Len(objects) |-> j],
                       LAMBDA j : /\ j \notin used
                                  /\ j # i
                                  /\ Near(objects[i], objects[j], threshold))

RECURSIVE GroupsFrom(_, _, _, _)
\* the outer loop from index i on, with the indices in used already grouped
GroupsFrom(objects, threshold, i, used) ==
    IF i > Len(objects) THEN <<>>
    ELSE IF i \in used THEN GroupsFrom(objects, threshold, i + 1, used)
    ELSE LET g == GroupAt(objects, threshold, i, used)
         IN  <<g>> \o GroupsFrom(objects, threshold, i + 1, used \cup Range(g))

\* the groups, as index lists, in output order
MergeGroups(objects, threshold) == GroupsFrom(objects, threshold, 1, {})

\* mutant: the merged width is the largest width of the group
MergeGroupWidest(group) ==
    LET n == Len(group)
        x == SeqMin([k \in 1..n |-> group[k].x])
        y == SeqMin([k \in 1..n |-> group[k].y])
        w == SeqMax([k \in 1..n |-> group[k].width])
        h == SeqMax([k \in 1..n |-> group[k].y + group[k].height]) - y
    IN  [type |-> "object", x |-> x, y |-> y, width |-> w, height |-> h,
         area |-> SeqSum([k \in 1..n |-> group[k].area]),
         center |-> <<x + w \div 2, y + h \div 2>>,
         confidence |-> SeqMax([k \in 1..n |-> group[k].confidence]),
         method |-> "merged"]

\* the candidate built from a group of two or more
MergeGroup(group) ==
    LET n == Len(group)
        xs == [k \in 1..n |-> group[k].x]
        ys == [k \in 1..n |-> group[k].y]
        x == SeqMin(xs)
        y == SeqMin(ys)
        w == SeqMax([k \in 1..n |-> group[k].x + group[k].width]) - x
        h == SeqMax([k \in 1..n |-> group[k].y + group[k].height]) - y
    IN  [type |-> "object", x |-> x, y |-> y, width |-> w, height |-> h,
         area |-> SeqSum([k \in 1..n |-> group[k].area]),
         center |-> <<x + w \div 2, y + h \div 2>>,
         confidence |-> SeqMax([k \in 1..n |-> group[k].confidence]),
         method |-> "merged"]

MergeNearbyObjects(objects, threshold) ==
    LET groups == MergeGroups(objects, threshold)
        members(g) == [k \in 1..Len(g) |-> objects[g[k]]]
    IN  [i \in 1..Len(groups) |->
            IF Len(groups[i]) > 1 THEN MergeGroup(members(groups[i]))
            ELSE objects[groups[i][1]]]

----------------------------------------------------------------------------
(* CameraService.detect_objects *)

\* mutant: the first candidate is kept, not the most confident
BestOfFirst(objects) == objects[1]

\* sorted(objects, key=confidence, reverse=True)[0]: stable, so the first
\* candidate of the highest confidence
BestOf(objects) ==
    LET top == SeqMax([k \in 1..Len(objects) |-> objects[k].confidence])
        first == CHOOSE i \in 1..Len(objects) :
                    /\ objects[i].confidence = top
                    /\ \A j \in 1..(i - 1) : objects[j].confidence # top
    IN  objects[first]

KeepBest(objects) ==
    IF Len(objects) > 1 THEN <<BestOf(objects)>> ELSE objects

\* mutant: object_count is not set to 1 when only the best is kept
KeepBestCountStale(objects, object_count) == object_count

KeepBestCount(objects, object_count) ==
    IF Len(objects) > 1 THEN 1 ELSE object_count

\* mutant: the model counts as learned one frame early
BackgroundLearnedEarly(frames) == frames >= BG_LEARN_FRAMES - 1

\* if self.bg_learning_frames >= 30
BackgroundLearned(frames) == frames >= BG_LEARN_FRAMES

\* mutant: the motion contours are extracted while still learning
EmitsMotionAlways(runsBg, init) == runsBg

\* if self.bg_initialized: the motion contours are extracted
EmitsMotion(runsBg, init) == runsBg /\ init

RunsBackground(method, p) ==
    p.use_background_subtraction \/ method = "background"

RunsContour(method, p) ==
    ~p.use_background_subtraction /\ method \in {"contour", "combined"}

RunsBlob(method, p) ==
    ~p.use_background_subtraction /\ method \in {"blob", "combined"}

RunsCircle(method, p) == method = "circle"

ErrorResult(why) ==
    [objects_found |-> FALSE, object_count |-> 0, objects |-> <<>>,
     error |-> why]

\* params.get('morphological_kernel_size', 7)
KernelSize(p) ==
    IF "morphological_kernel_size" \in DOMAIN p
    THEN p.morphological_kernel_size
    ELSE DEFAULT_KERNEL_SIZE

\* What one call does to the background model and what it returns.
\*   sub, init, frames : the model after the call
\*   created           : the call created the subtractor
\*   applied           : the call put the frame through the subtractor
\*   survivors         : the candidates before the keep-best step
DetectOutcome(frame, method, p) ==
    IF frame.kind = "None"
    THEN [sub |-> bg_subtractor, init |-> bg_initialized,
          frames |-> bg_learning_frames, created |-> FALSE, applied |-> FALSE,
          survivors |-> <<>>, result |-> ErrorResult("No frame provided")]
    ELSE
    LET runsBg == RunsBackground(method, p)
        created == runsBg /\ bg_subtractor = "None"
        sub1 == IF runsBg THEN "MOG2" ELSE bg_subtractor
        init0 == IF created THEN FALSE ELSE bg_initialized
        frames0 == IF created THEN 0 ELSE bg_learning_frames
        bad == frame.kind = "malformed"
        applied == runsBg /\ ~bad
        frames1 == IF applied /\ ~init0 THEN frames0 + 1 ELSE frames0
        init1 == IF applied /\ ~init0 THEN BackgroundLearned(frames1) ELSE init0
        raises == bad /\ (runsBg \/ RunsContour(method, p)
                          \/ RunsBlob(method, p) \/ RunsCircle(method, p))
        \* np.ones((kernel_size, kernel_size)) raises ValueError
        kernelRaises == RunsCircle(method, p) /\ KernelSize(p) < 0
        bgObjs == IF EmitsMotion(runsBg, init1)
                  THEN BackgroundObjects(frame.regions, p)
                  ELSE <<>>
        contourObjs == IF RunsContour(method, p)
                       THEN ContourObjects(frame.regions, p)
                       ELSE <<>>
        blobObjs == IF RunsBlob(method, p)
                    THEN BlobObjects(frame.regions, p)
                    ELSE <<>>
        circleObjs == IF RunsCircle(method, p)
                      THEN CircleObjects(frame.regions, p)
                      ELSE <<>>
        found == bgObjs \o contourObjs \o blobObjs \o circleObjs
        merges == method = "combined" /\ Len(found) > 0
        merged == IF merges
                  THEN MergeNearbyObjects(found, COMBINED_MERGE_THRESHOLD)
                  ELSE found
        count1 == IF merges THEN Len(merged) ELSE Len(found)
        objects == KeepBest(merged)
        object_count == KeepBestCount(merged, count1)
    IN  IF raises
        THEN [sub |-> sub1, init |-> init0, frames |-> frames0,
              created |-> created, applied |-> FALSE, survivors |-> <<>>,
              result |-> ErrorResult("cv2.error")]
        ELSE IF kernelRaises
        THEN [sub |-> sub1, init |-> init1, frames |-> frames1,
              created |-> created, applied |-> applied, survivors |-> <<>>,
              result |-> ErrorResult("negative dimensions are not allowed")]
        ELSE [sub |-> sub1, init |-> init1, frames |-> frames1,
              created |-> created, applied |-> applied, survivors |-> merged,
              result |-> [objects_found |-> object_count > 0,
                          object_count |-> object_count,
                          objects |-> objects,
                          method |-> method,
                          bg_initialized |-> init1,
                          bg_learning_frames |-> frames1]]

----------------------------------------------------------------------------
(* app.py: numbering and archiving of the candidates of one response *)

\* Boxes the vision service (YOLO) may report
YoloBox(x, w, conf) ==
    [type |-> "counter", x |-> x, y |-> 200, width |-> w, height |-> 60,
     area |-> w * 60, center |-> <<x + w \div 2, 230>>, confidence |-> conf,
     method |-> "yolo"]

YoloBoxes ==
    {YoloBox(50, 60, 90), YoloBox(150, 60, 80), YoloBox(300, 60, 85),
     YoloBox(140, 200, 75)}

\* what call_vision_service returns: an error record or the service's answer
YoloAnswers ==
    {ErrorResult("Vision service timeout")} \cup
    {[objects_found |-> Len(b) > 0, object_count |-> Len(b), objects |-> b,
      method |-> "yolo"] : b \in DistinctSeqs(YoloBoxes, MaxBoxes)}

RECURSIVE InsertByX(_, _)
\* o put into the x-sorted list s behind every element whose x is not larger
InsertByX(s, o) ==
    IF Len(s) = 0 THEN <<o>>
    ELSE IF s[Len(s)].x <= o.x THEN Append(s, o)
    ELSE Append(InsertByX(SubSeq(s, 1, Len(s) - 1), o), s[Len(s)])

RECURSIVE SortByX(_)
\* detected_objects.sort(key=lambda obj: obj.get('x', 0)): a stable sort
SortByX(s) ==
    IF Len(s) = 0 THEN <<>>
    ELSE InsertByX(SortByX(SubSeq(s, 1, Len(s) - 1)), s[Len(s)])

\* length of the Python slice [a:b] of a dimension of n elements
SliceLen(a, b, n) ==
    LET ix(k) == IF k < 0 THEN Max2(k + n, 0) ELSE Min2(k, n)
    IN  Max2(ix(b) - ix(a), 0)

\* what cv2.imwrite does: writes the file, returns False without writing
\* (directory missing, disk full), or raises cv2.error
SaveOutcomes == {"written", "not_written", "raises"}

\* save_counter_image: the bounds x1, y1, x2, y2 it computes for the crop
CropBounds(obj) ==
    [x1 |-> Max2(0, obj.x - SAVE_PADDING),
     y1 |-> Max2(0, obj.y - SAVE_PADDING),
     x2 |-> Min2(FRAME_WIDTH, obj.x + obj.width + SAVE_PADDING),
     y2 |-> Min2(FRAME_HEIGHT, obj.y + obj.height + SAVE_PADDING)]

\* cropped.size of frame[y1:y2, x1:x2], per channel
CropSize(obj) ==
    LET b == CropBounds(obj)
    IN  SliceLen(b.y1, b.y2, FRAME_HEIGHT) * SliceLen(b.x1, b.x2, FRAME_WIDTH)

\* save_counter_image when cv2.imwrite does disk: what it returns, and
\* whether a file was written
SaveCounterImageTo(obj, disk) ==
    IF CropSize(obj) = 0
    THEN [path |-> "None", file |-> FALSE]
    ELSE IF disk = "raises"
    THEN [path |-> "None", file |-> FALSE]
    ELSE [path |-> "counter.jpg", file |-> disk = "written"]

\* save_counter_image with a disk that works: the path returned, or "None"
SaveCounterImage(obj) == SaveCounterImageTo(obj, "written").path

\* the loop of vision_detect over the sorted candidates, with cv2.imwrite
\* doing disk[i] for the i-th of them: the candidates returned, the crop
\* bounds computed, the candidates whose file was written
ArchiveObjects(detected_objects, disk) ==
    LET sorted == SortByX(detected_objects)
        saved(i) == SaveCounterImageTo(sorted[i], disk[i])
        numbered(i) == WithField(sorted[i], "counterNumber", i)
    IN  [objects |-> [i \in 1..Len(sorted) |->
                        IF saved(i).path # "None"
                        THEN WithField(numbered(i), "saved_image_path",
                                       saved(i).path)
                        ELSE numbered(i)],
         bounds |-> [i \in 1..Len(sorted) |-> CropBounds(sorted[i])],
         boxes |-> sorted,
         files |-> {i \in 1..Len(sorted) : saved(i).file}]

\* mutant: enumerate starts at 0
NumberObjectsFromZero(detected_objects) ==
    LET sorted == SortByX(detected_objects)
    IN  [i \in 1..Len(sorted) |-> WithField(sorted[i], "counterNumber", i - 1)]

\* enumerate(detected_objects, start=1) after the sort, with the crop saved
NumberObjects(detected_objects) ==
    LET sorted == SortByX(detected_objects)
        numbered(i) == WithField(sorted[i], "counterNumber", i)
    IN  [i \in 1..Len(sorted) |->
            IF SaveCounterImage(sorted[i]) # "None"
            THEN WithField(numbered(i), "saved_image_path",
                           SaveCounterImage(sorted[i]))
            ELSE numbered(i)]

\* the JSON body vision_detect returns for object_results
DetectResponse(object_results, object_method) ==
    LET detected == NumberObjects(object_results.objects)
        base == [object_detection_enabled |-> TRUE,
                 defect_detection_enabled |-> FALSE,
                 object_count |-> Len(detected),
                 objects |-> detected,
                 objects_found |-> Len(detected) > 0,
                 object_method |-> object_method]
    IN  IF "error" \in DOMAIN object_results
        THEN WithField(base, "detection_error", object_results.error)
        ELSE base

----------------------------------------------------------------------------
(* State and operations of the service *)

DefaultParams ==
    [use_background_subtraction |-> TRUE,
     min_confidence |-> DEFAULT_MIN_CONFIDENCE,
     min_object_area |-> DEFAULT_MIN_AREA,
     max_object_area |-> DEFAULT_MAX_AREA]

NoCall == [method |-> "none", params |-> DefaultParams]
NoResult == [pending |-> TRUE]

\* CameraService.__init__
ServiceInit ==
    /\ camera = "None"
    /\ bg_subtractor = "None"
    /\ bg_initialized = FALSE
    /\ bg_learning_frames = 0

\* the background model as it is now
Model ==
    [sub |-> bg_subtractor, init |-> bg_initialized,
     frames |-> bg_learning_frames]

HistoryInit ==
    /\ lastOp = "init"
    /\ before = Model
    /\ lastArgs = NoCall
    /\ processed = 0
    /\ survivors = <<>>
    /\ result = NoResult
    /\ response = NoResult

MergeIdle ==
    /\ merge_in = <<>>
    /\ merge_threshold = 0
    /\ merge_out = <<>>

\* the confidence formulas have not been applied on their own
ScoreIdle ==
    /\ score_in = [pending |-> TRUE]
    /\ score_out = [pending |-> TRUE]

\* no repeated detection call is followed
ProbeIdle ==
    /\ probe = [pending |-> TRUE]
    /\ probe_runs = <<>>

\* bits of the Merker byte the fault bit may be configured to
MBits == {0, 1}

\* the controller as write_plc_fault_bit finds it
PlcState ==
    [enabled |-> fault_bit_enabled, available |-> plc_available,
     connected |-> plc_connected, link |-> plc_link, m |-> m_byte,
     attempts |-> connect_attempts]

\* PLCClient.__init__ as called by init_clients: created, not connected
PlcClientInit ==
    /\ fault_bit_bit = 0
    /\ plc_available = TRUE
    /\ plc_connected = FALSE
    /\ plc_link = FALSE
    /\ m_byte = [b \in MBits |-> FALSE]
    /\ connect_attempts = 0
    /\ plc_before = PlcState
    /\ plc_result = NoResult

\* get_config: without a 'vision' section the fault bit is disabled
PlcIdle ==
    /\ fault_bit_enabled = FALSE
    /\ PlcClientInit

\* threads serving requests
Threads == {"A", "B"}

\* a request that holds no frame; a method that has not returned
NoFrameHeld == [frame |-> 0, used |-> {}, captures |-> 0]
Pending == [kind |-> "pending", val |-> 0, why |-> "pending"]

\* no request is being served
ThreadsIdle ==
    /\ lock = "free"
    /\ pc = [t \in Threads |-> "idle"]
    /\ path = [t \in Threads |-> "none"]
    /\ ret = [t \in Threads |-> Pending]
    /\ req = [t \in Threads |-> NoFrameHeld]
    /\ device_seq = 0
    /\ last_frame = 0
    /\ frame_time = 0

\* nothing is being archived, no call has locals, no poll loop was started
LaterIdle ==
    /\ crop_in = [pending |-> TRUE]
    /\ crop_out = [pending |-> TRUE]
    /\ locals = [t \in Threads |-> 0]
    /\ subtractors = 0
    /\ poll_running = FALSE
    /\ poll_thread = 0
    /\ poll_loops = <<>>

Init ==
    /\ ServiceInit /\ HistoryInit /\ MergeIdle
    /\ ScoreIdle /\ ProbeIdle /\ PlcIdle /\ ThreadsIdle /\ LaterIdle

\* CameraService.initialize_camera; opens: whether the device opens
InitializeCamera ==
    \E opens \in BOOLEAN :
        /\ camera' = IF opens THEN "opened" ELSE "unopened"
        /\ lastOp' = "initialize_camera"
        /\ before' = Model
        /\ UNCHANGED <<bg_subtractor, bg_initialized, bg_learning_frames,
                       processed, otherVars, idleVars>>
        /\ lastArgs' = NoCall
        /\ survivors' = <<>>
        /\ result' = NoResult
        /\ response' = NoResult

\* mutant: release drops the subtractor but keeps the frame counter
ReleasedModelKeepsCount ==
    [sub |-> "None", init |-> FALSE, frames |-> bg_learning_frames]

\* the background model after release_camera
ReleasedModel ==
    IF bg_subtractor # "None"
    THEN [sub |-> "None", init |-> FALSE, frames |-> 0]
    ELSE [sub |-> bg_subtractor, init |-> bg_initialized,
          frames |-> bg_learning_frames]

\* CameraService.release_camera
ReleaseCamera ==
    /\ camera' = "None"
    /\ bg_subtractor' = ReleasedModel.sub
    /\ bg_initialized' = ReleasedModel.init
    /\ bg_learning_frames' = ReleasedModel.frames
    /\ processed' = IF bg_subtractor # "None" THEN 0 ELSE processed
    /\ lastOp' = "release_camera"
    /\ before' = Model
    /\ lastArgs' = NoCall
    /\ survivors' = <<>>
    /\ result' = NoResult
    /\ response' = NoResult
    /\ UNCHANGED <<otherVars, idleVars>>

\* the effect of one detect_objects call on the model and the history
ApplyDetect(out, method, p) ==
    /\ bg_subtractor' = out.sub
    /\ bg_initialized' = out.init
    /\ bg_learning_frames' = out.frames
    /\ processed' = LET base == IF out.created THEN 0 ELSE processed
                    IN  IF out.applied THEN Min2(base + 1, MaxProcessed) ELSE base
    /\ lastArgs' = [method |-> method, params |-> p]
    /\ before' = Model
    /\ survivors' = out.survivors
    /\ result' = out.result

\* CameraService.detect_objects(frame, method, params)
DetectObjects ==
    \E frame \in Frames \cup {NoFrame}, method \in Methods, p \in Params :
        LET out == DetectOutcome(frame, method, p)
        IN  /\ ApplyDetect(out, method, p)
            /\ lastOp' = "detect_objects"
            /\ response' = NoResult
            /\ UNCHANGED <<camera, otherVars, idleVars>>

Next ==
    \/ InitializeCamera
    \/ ReleaseCamera
    \/ DetectObjects

Spec == Init /\ [][Next]_vars

----------------------------------------------------------------------------
(* The handlers of app.py, from the state init_clients leaves *)

\* init_clients: the service is constructed and the camera initialized
AppInit ==
    /\ camera \in {"opened", "unopened"}
    /\ bg_subtractor = "None"
    /\ bg_initialized = FALSE
    /\ bg_learning_frames = 0
    /\ HistoryInit
    /\ MergeIdle
    /\ ScoreIdle /\ ProbeIdle /\ ThreadsIdle /\ LaterIdle
    /\ fault_bit_enabled = TRUE    \* config.json has the fault bit switched on
    /\ PlcClientInit

NoDetection ==
    /\ lastArgs' = NoCall
    /\ before' = Model
    /\ survivors' = <<>>
    /\ result' = NoResult

\* POST /api/camera/connect
CameraConnect ==
    \E opens \in BOOLEAN :
        /\ camera' = IF opens THEN "opened" ELSE "unopened"
        /\ response' = [success |-> opens, connected |-> opens]
        /\ lastOp' = "camera_connect"
        /\ NoDetection
        /\ UNCHANGED <<bg_subtractor, bg_initialized, bg_learning_frames,
                       processed, otherVars, idleVars>>

\* POST /api/camera/disconnect
CameraDisconnect ==
    /\ camera' = "None"
    /\ bg_subtractor' = ReleasedModel.sub
    /\ bg_initialized' = ReleasedModel.init
    /\ bg_learning_frames' = ReleasedModel.frames
    /\ processed' = IF bg_subtractor # "None" THEN 0 ELSE processed
    /\ response' = [success |-> TRUE]
    /\ lastOp' = "camera_disconnect"
    /\ NoDetection
    /\ UNCHANGED <<otherVars, idleVars>>

\* POST /api/vision/detect
VisionDetect ==
    \/ \* read_frame returns None: camera absent, not open, or the read fails
       /\ response' = [error |-> "Failed to read frame from camera"]
       /\ lastOp' = "vision_detect"
       /\ NoDetection
       /\ UNCHANGED <<serviceVars, processed, otherVars, idleVars>>
    \/ \* object_detection_enabled false
       /\ camera = "opened"
       /\ response' = [object_detection_enabled |-> FALSE,
                       defect_detection_enabled |-> FALSE]
       /\ lastOp' = "vision_detect"
       /\ NoDetection
       /\ UNCHANGED <<serviceVars, processed, otherVars, idleVars>>
    \/ \* object_method 'yolo': the vision service answers
       /\ camera = "opened"
       /\ \E answer \in YoloAnswers :
             response' = DetectResponse(answer, "yolo")
       /\ lastOp' = "vision_detect"
       /\ NoDetection
       /\ UNCHANGED <<serviceVars, processed, otherVars, idleVars>>
    \/ \* any other object_method: detect_objects on the frame read
       /\ camera = "opened"
       /\ \E frame \in Images, method \in Methods, p \in Params :
             LET out == DetectOutcome(frame, method, p)
             IN  /\ ApplyDetect(out, method, p)
                 /\ response' = DetectResponse(out.result, method)
       /\ lastOp' = "vision_detect"
       /\ UNCHANGED <<camera, otherVars, idleVars>>

NextApp ==
    \/ CameraConnect
    \/ CameraDisconnect
    \/ VisionDetect

SpecApp == AppInit /\ [][NextApp]_vars

----------------------------------------------------------------------------
(* _merge_nearby_objects on its own *)

Candidate(cx, cy, x, y, w, h, area, conf, method) ==
    [type |-> "object", x |-> x, y |-> y, width |-> w, height |-> h,
     area |-> area, center |-> <<cx, cy>>, confidence |-> conf,
     method |-> method]

MergeCandidates ==
    { Candidate(100, 100, 80, 80, 40, 40, 1600, 70, "contour"),
      Candidate(110, 100, 100, 90, 20, 20, 314, 60, "blob"),
      Candidate(140, 100, 130, 90, 20, 20, 314, 60, "blob"),
      Candidate(180, 100, 150, 60, 60, 80, 4800, 70, "contour"),
      Candidate(100, 130, 90, 120, 20, 20, 400, 60, "blob") }

MergeThresholds == {30, COMBINED_MERGE_THRESHOLD}

MergeInit ==
    /\ ServiceInit
    /\ HistoryInit
    /\ merge_in \in DistinctSeqs(MergeCandidates, MaxMerge)
    /\ merge_threshold \in MergeThresholds
    /\ merge_out = <<>>
    /\ ScoreIdle /\ ProbeIdle /\ PlcIdle /\ ThreadsIdle /\ LaterIdle

\* self._merge_nearby_objects(objects, threshold)
MergeCall ==
    /\ lastOp = "init"
    /\ merge_out' = MergeNearbyObjects(merge_in, merge_threshold)
    /\ lastOp' = "_merge_nearby_objects"
    /\ UNCHANGED <<serviceVars, lastArgs, before, processed, survivors,
                   result, response, merge_in, merge_threshold, idleVars,
                   laterVars>>

NextMerge == MergeCall

SpecMerge == MergeInit /\ [][NextMerge]_vars

----------------------------------------------------------------------------
(* detect_objects called repeatedly on one frame with one set of arguments *)

\* frames of the repeated call: a disc, a moving part that is not round
\* enough for the circle strategy, a blob at the lower edge of the frame
ProbeRegions ==
    { Region(100, 100, 300, 300, 70000, 98, 90, TRUE, TRUE),
      Region(400, 200, 240, 240, 50000, 100, 60, TRUE, TRUE),
      Region(50, 380, 200, 100, 15000, 70, 40, FALSE, TRUE) }

ProbeImages ==
    {[kind |-> "image", regions |-> r] :
        r \in DistinctSeqs(ProbeRegions, MaxRegions)}

ProbeParams == {p \in Params : p.min_confidence = DEFAULT_MIN_CONFIDENCE}

\* background models the service can be in when the first call arrives:
\* never used, one frame short of learned, learned
ProbeModels ==
    { [sub |-> "None", init |-> FALSE, frames |-> 0],
      [sub |-> "MOG2", init |-> FALSE, frames |-> BG_LEARN_FRAMES - 1],
      [sub |-> "MOG2", init |-> TRUE, frames |-> BG_LEARN_FRAMES] }

ProbeInit ==
    /\ camera = "opened"
    /\ \E m \in ProbeModels :
          /\ bg_subtractor = m.sub
          /\ bg_initialized = m.init
          /\ bg_learning_frames = m.frames
          /\ processed = m.frames
    /\ lastOp = "init"
    /\ before = Model
    /\ lastArgs = NoCall
    /\ survivors = <<>>
    /\ result = NoResult
    /\ response = NoResult
    /\ probe \in [frame : ProbeImages, method : Methods, params : ProbeParams,
                  others : {0}]
    /\ probe_runs = <<>>
    /\ MergeIdle /\ ScoreIdle /\ PlcIdle /\ ThreadsIdle /\ LaterIdle

\* detect_objects(frame, method, params) with the arguments under study
ProbeCall ==
    /\ Len(probe_runs) < 2
    /\ LET out == DetectOutcome(probe.frame, probe.method, probe.params)
       IN  /\ ApplyDetect(out, probe.method, probe.params)
           /\ probe_runs' = Append(probe_runs,
                                   [model |-> Model,
                                    learned |-> out.init,
                                    survivors |-> out.survivors,
                                    objects |-> out.result.objects])
    /\ lastOp' = "detect_objects"
    /\ response' = NoResult
    /\ UNCHANGED <<camera, probe, otherVars, scoreVars, plcVars, threadVars>>

\* another detect_objects call on the same scene: method 'background'
OtherCall ==
    /\ probe.others < MaxOtherCalls
    /\ LET out == DetectOutcome(probe.frame, "background", DefaultParams)
       IN  ApplyDetect(out, "background", DefaultParams)
    /\ probe' = [probe EXCEPT !.others = @ + 1]
    /\ lastOp' = "detect_objects"
    /\ response' = NoResult
    /\ UNCHANGED <<camera, probe_runs, otherVars, scoreVars, plcVars,
                   threadVars>>

NextDetect ==
    \/ ProbeCall
    \/ OtherCall
    \/ ReleaseCamera
    \/ InitializeCamera

SpecDetect == ProbeInit /\ [][NextDetect]_vars

----------------------------------------------------------------------------
(* The confidence formulas of detect_objects on their own *)

\* contour areas, area limits, and solidity / circularity in hundredths
ScoreAreas == {0, 5001, 50000, 99999, 100000, 250000}
ScoreMinAreas == {-1, DEFAULT_MIN_AREA}
ScoreMaxAreas == {1, DEFAULT_MAX_AREA, 300000}
ScoreFractions == {0, 50, 100}

ScoreInit ==
    /\ ServiceInit /\ HistoryInit /\ MergeIdle
    /\ ProbeIdle /\ PlcIdle /\ ThreadsIdle /\ LaterIdle
    /\ score_in \in [area : ScoreAreas, min_area : ScoreMinAreas,
                     max_area : ScoreMaxAreas, sol : ScoreFractions,
                     circ : ScoreFractions]
    /\ score_out = [pending |-> TRUE]

\* the confidences the strategies give a contour with these measurements,
\* and the confidence of the candidate merged from them
Confidences(m) ==
    LET p == [min_object_area |-> m.min_area, max_object_area |-> m.max_area]
        inRange == AreaInRange(m.area, p)
        motion == IF inRange
                  THEN <<Round2(BackgroundScore(m.area, m.sol, m.max_area))>>
                  ELSE <<>>
        circle == IF inRange /\ m.circ >= MIN_CIRCULARITY
                  THEN <<Round2(CircleScore(m.area, m.circ, m.max_area))>>
                  ELSE <<>>
        contour == IF inRange THEN <<CONTOUR_CONFIDENCE>> ELSE <<>>
        blob == IF m.min_area <= m.area /\ m.area < m.max_area
                THEN <<BLOB_CONFIDENCE>> ELSE <<>>
        all == motion \o circle \o contour \o blob
    IN  [motion |-> motion, circle |-> circle, contour |-> contour,
         blob |-> blob,
         merged |-> IF Len(all) > 0 THEN <<SeqMax(all)>> ELSE <<>>]

\* the formulas applied to the measurements
ScoreCall ==
    /\ lastOp = "init"
    /\ score_out' = Confidences(score_in)
    /\ lastOp' = "confidence"
    /\ UNCHANGED <<serviceVars, lastArgs, before, processed, survivors,
                   result, response, otherVars, score_in, probeVars, plcVars,
                   threadVars>>

NextScore == ScoreCall

SpecScore == ScoreInit /\ [][NextScore]_vars

----------------------------------------------------------------------------
(* write_plc_fault_bit and the controller client, app.py and plc_client.py *)

\* init_clients: the client exists unless snap7 could not provide one;
\* config.json may or may not enable the fault bit
PlcInit ==
    /\ ServiceInit /\ HistoryInit /\ MergeIdle
    /\ ScoreIdle /\ ProbeIdle /\ ThreadsIdle /\ LaterIdle
    /\ fault_bit_enabled \in BOOLEAN
    /\ fault_bit_bit \in MBits
    /\ plc_available \in BOOLEAN
    /\ plc_connected = FALSE
    /\ plc_link = FALSE
    /\ m_byte = [b \in MBits |-> FALSE]
    /\ connect_attempts = 0
    /\ plc_before = PlcState
    /\ plc_result = NoResult

\* what every controller operation leaves alone, and the snapshot it takes
PlcFrame(name) ==
    /\ lastOp' = name
    /\ plc_before' = PlcState
    /\ UNCHANGED <<serviceVars, lastArgs, before, processed, survivors,
                   result, response, otherVars, scoreVars, probeVars,
                   threadVars>>

\* POST /api/config with a vision section
UpdateConfig ==
    \E enabled \in BOOLEAN, bit \in MBits :
        /\ fault_bit_enabled' = enabled
        /\ fault_bit_bit' = bit
        /\ plc_result' = NoResult
        /\ PlcFrame("update_config")
        /\ UNCHANGED <<plc_available, plc_connected, plc_link, m_byte,
                       connect_attempts>>

\* PLCClient.is_connected
IsConnected == plc_connected /\ plc_link

\* POST /api/plc/connect -> PLCClient.connect; answer: whether the
\* controller accepts the connection
PlcConnect ==
    /\ plc_available
    /\ \E throttled \in BOOLEAN, answer \in BOOLEAN :
          IF throttled \/ IsConnected
          THEN UNCHANGED <<plc_connected, plc_link, connect_attempts>>
          ELSE /\ connect_attempts < MaxConnects
               /\ connect_attempts' = connect_attempts + 1
               /\ plc_connected' = answer
               /\ plc_link' = answer
    /\ plc_result' = NoResult
    /\ PlcFrame("plc_connect")
    /\ UNCHANGED <<fault_bit_enabled, fault_bit_bit, plc_available, m_byte>>

\* POST /api/plc/disconnect -> PLCClient.disconnect
PlcDisconnect ==
    /\ plc_available
    /\ plc_connected' = FALSE
    /\ plc_link' = IF plc_connected THEN FALSE ELSE plc_link
    /\ plc_result' = NoResult
    /\ PlcFrame("plc_disconnect")
    /\ UNCHANGED <<fault_bit_enabled, fault_bit_bit, plc_available, m_byte,
                   connect_attempts>>

\* the connection is lost: client.get_connected() turns false
LinkDrop ==
    /\ plc_link
    /\ plc_link' = FALSE
    /\ plc_result' = NoResult
    /\ PlcFrame("link_drop")
    /\ UNCHANGED <<fault_bit_enabled, fault_bit_bit, plc_available,
                   plc_connected, m_byte, connect_attempts>>

\* what the snap7 calls of one write do
PlcDeviceOutcomes == {"ok", "mb_read_raises", "mb_write_raises"}

\* PLCClient.write_m_bit: [success, m] with m the Merker byte afterwards
WriteMBit(bit, value, dev) ==
    IF ~IsConnected THEN [success |-> FALSE, m |-> m_byte]
    ELSE IF dev = "ok"
    THEN [success |-> TRUE, m |-> [m_byte EXCEPT ![bit] = value]]
    ELSE [success |-> FALSE, m |-> m_byte]

\* mutant: the enabled flag is not looked at
FaultBitAlwaysEnabled == TRUE

\* vision_config.get('fault_bit_enabled', False)
FaultBitEnabled == fault_bit_enabled

\* write_plc_fault_bit: [result, m]
FaultBitOutcome(defects_found, config_ok, dev) ==
    IF ~config_ok
    THEN [r |-> [written |-> FALSE, reason |-> "config_error"], m |-> m_byte]
    ELSE IF ~FaultBitEnabled
    THEN [r |-> [written |-> FALSE, reason |-> "disabled"], m |-> m_byte]
    ELSE IF ~plc_available
    THEN [r |-> [written |-> FALSE, reason |-> "plc_not_available"],
          m |-> m_byte]
    ELSE IF ~IsConnected
    THEN [r |-> [written |-> FALSE, reason |-> "plc_not_connected"],
          m |-> m_byte]
    ELSE LET w == WriteMBit(fault_bit_bit, defects_found, dev)
         IN  IF w.success
             THEN [r |-> [written |-> TRUE, address |-> fault_bit_bit,
                          value |-> defects_found],
                   m |-> w.m]
             ELSE [r |-> [written |-> FALSE, reason |-> "write_failed",
                          address |-> fault_bit_bit],
                   m |-> w.m]

\* write_plc_fault_bit(defects_found)
WritePlcFaultBit ==
    \E defects_found \in BOOLEAN, config_ok \in BOOLEAN,
       dev \in PlcDeviceOutcomes :
        LET out == FaultBitOutcome(defects_found, config_ok, dev)
        IN  /\ plc_result' = out.r
            /\ m_byte' = out.m
            /\ PlcFrame("write_plc_fault_bit")
            /\ UNCHANGED <<fault_bit_enabled, fault_bit_bit, plc_available,
                           plc_connected, plc_link, connect_attempts>>

NextPlc ==
    \/ UpdateConfig
    \/ PlcConnect
    \/ PlcDisconnect
    \/ LinkDrop
    \/ WritePlcFaultBit

SpecPlc == PlcInit /\ [][NextPlc]_vars

----------------------------------------------------------------------------
(* Threads calling into one CameraService: self.lock, the device handle,  *)
(* and the frame a detection request holds                                 *)

\* routes a thread may serve
Paths == {"connect", "disconnect", "stream", "status", "detect"}

\* the CameraService method a route calls
Method(p) ==
    CASE p = "connect" -> "initialize_camera"
      [] p = "disconnect" -> "release_camera"
      [] OTHER -> "read_frame"

ThreadsInit ==
    /\ ServiceInit /\ HistoryInit /\ MergeIdle
    /\ ScoreIdle /\ ProbeIdle /\ PlcIdle /\ ThreadsIdle /\ LaterIdle

\* what a step of a thread leaves alone
ThreadFrame ==
    UNCHANGED <<lastOp, lastArgs, before, processed, survivors, result,
                response, otherVars, scoreVars, probeVars, plcVars>>

\* a request arrives and its handler calls the CameraService method
Call(t) ==
    /\ pc[t] = "idle"
    /\ \E p \in Paths : path' = [path EXCEPT ![t] = p]
    /\ pc' = [pc EXCEPT ![t] = "wait"]
    /\ ret' = [ret EXCEPT ![t] = Pending]
    /\ req' = [req EXCEPT ![t] = NoFrameHeld]
    /\ UNCHANGED <<lock, device_seq, last_frame, frame_time, serviceVars>>
    /\ ThreadFrame

\* mutant: the lock is taken without waiting for it
LockFreeIgnored == TRUE

\* threading.Lock: acquire succeeds only when nobody holds it
LockFree == lock = "free"

\* with self.lock: (entry)
Acquire(t) ==
    /\ pc[t] = "wait"
    /\ LockFree
    /\ lock' = t
    /\ pc' = [pc EXCEPT ![t] = "in"]
    /\ UNCHANGED <<path, ret, req, device_seq, last_frame, frame_time,
                   serviceVars>>
    /\ ThreadFrame

\* what cv2.VideoCapture(index) does
OpenOutcomes == {"opens", "stays_closed", "throws"}

\* body of initialize_camera under the lock
InitializeBody(t) ==
    /\ Method(path[t]) = "initialize_camera"
    /\ \E dev \in OpenOutcomes :
          /\ camera' = CASE dev = "opens" -> "opened"
                         [] dev = "stays_closed" -> "unopened"
                         [] OTHER -> IF camera = "None" THEN "None"
                                     ELSE "unopened"
          /\ ret' = [ret EXCEPT ![t] =
                        [kind |-> "bool",
                         val |-> IF dev = "opens" THEN 1 ELSE 0,
                         why |-> dev]]
    /\ UNCHANGED <<bg_subtractor, bg_initialized, bg_learning_frames, req,
                   device_seq, last_frame, frame_time>>

\* body of release_camera under the lock
ReleaseBody(t) ==
    /\ Method(path[t]) = "release_camera"
    /\ camera' = "None"
    /\ bg_subtractor' = ReleasedModel.sub
    /\ bg_initialized' = ReleasedModel.init
    /\ bg_learning_frames' = ReleasedModel.frames
    /\ ret' = [ret EXCEPT ![t] = [kind |-> "none", val |-> 0,
                                  why |-> "released"]]
    /\ UNCHANGED <<req, device_seq, last_frame, frame_time>>

\* what self.camera.read() does
ReadOutcomes == {"ok", "no_frame", "throws"}

\* mutant: an exception of the device leaves read_frame
ReadFrameUnguarded(dev, frame) ==
    IF camera # "opened"
    THEN [kind |-> "none", val |-> 0, why |-> "not_open"]
    ELSE IF dev = "ok"
    THEN [kind |-> "frame", val |-> frame, why |-> "captured"]
    ELSE IF dev = "throws"
    THEN [kind |-> "raised", val |-> 0, why |-> "throws"]
    ELSE [kind |-> "none", val |-> 0, why |-> dev]

\* read_frame: what it returns when the device answers dev and the frame
\* it would deliver is number frame
ReadFrame(dev, frame) ==
    IF camera # "opened"
    THEN [kind |-> "none", val |-> 0, why |-> "not_open"]
    ELSE IF dev = "ok"
    THEN [kind |-> "frame", val |-> frame, why |-> "captured"]
    ELSE [kind |-> "none", val |-> 0, why |-> dev]

\* body of read_frame under the lock
ReadBody(t) ==
    /\ Method(path[t]) = "read_frame"
    /\ \E dev \in ReadOutcomes :
          LET r == ReadFrame(dev, device_seq + 1)
              captured == camera = "opened" /\ dev = "ok"
          IN  /\ captured => device_seq < MaxCaptures
              /\ ret' = [ret EXCEPT ![t] = r]
              /\ device_seq' = IF captured THEN device_seq + 1 ELSE device_seq
              /\ last_frame' = IF captured THEN device_seq + 1 ELSE last_frame
              /\ frame_time' = IF captured THEN device_seq + 1 ELSE frame_time
              /\ req' = [req EXCEPT ![t] =
                            IF captured
                            THEN [frame |-> device_seq + 1, used |-> {},
                                  captures |-> @.captures + 1]
                            ELSE @]
    /\ UNCHANGED serviceVars

\* the method body runs while the thread holds the lock
Body(t) ==
    /\ pc[t] = "in"
    /\ \/ InitializeBody(t)
       \/ ReleaseBody(t)
       \/ ReadBody(t)
    /\ pc' = [pc EXCEPT ![t] = "out"]
    /\ UNCHANGED <<lock, path>>
    /\ ThreadFrame

\* with self.lock: (exit, on return and on exception alike), then the
\* handler goes on: vision_detect with a frame runs the detection
Exit(t) ==
    /\ pc[t] = "out"
    /\ lock' = "free"
    /\ pc' = [pc EXCEPT ![t] =
                 IF path[t] = "detect" /\ ret[t].kind = "frame"
                 THEN "strategies" ELSE "idle"]
    /\ UNCHANGED <<path, ret, req, device_seq, last_frame, frame_time,
                   serviceVars>>
    /\ ThreadFrame

\* mutant: the detection works on the newest frame of the service
FrameUsedLatest(t) == last_frame

\* the frame vision_detect hands to the detector and to save_counter_image:
\* its local variable frame
FrameUsed(t) == req[t].frame

\* vision_detect: call_vision_service(frame, ...) or
\* camera_service.detect_objects(frame, ...); found: whether it reports objects
Strategies(t) ==
    /\ pc[t] = "strategies"
    /\ \E local \in BOOLEAN, found \in BOOLEAN :
          /\ req' = [req EXCEPT ![t].used = @ \cup {FrameUsed(t)}]
          /\ pc' = [pc EXCEPT ![t] = IF found THEN "crop" ELSE "idle"]
          /\ IF local
             THEN LET frames1 == IF bg_initialized THEN bg_learning_frames
                                 ELSE IF bg_subtractor = "None" THEN 1
                                 ELSE bg_learning_frames + 1
                  IN  /\ bg_subtractor' = "MOG2"
                      /\ bg_learning_frames' = frames1
                      /\ bg_initialized' = IF bg_initialized THEN TRUE
                                           ELSE BackgroundLearned(frames1)
             ELSE UNCHANGED <<bg_subtractor, bg_initialized,
                              bg_learning_frames>>
    /\ UNCHANGED <<camera, lock, path, ret, device_seq, last_frame,
                   frame_time>>
    /\ ThreadFrame

\* vision_detect: save_counter_image(frame, obj, ...) for the objects found
Crop(t) ==
    /\ pc[t] = "crop"
    /\ req' = [req EXCEPT ![t].used = @ \cup {FrameUsed(t)}]
    /\ pc' = [pc EXCEPT ![t] = "idle"]
    /\ UNCHANGED <<lock, path, ret, device_seq, last_frame, frame_time,
                   serviceVars>>
    /\ ThreadFrame

NextThreads ==
    \E t \in Threads :
        \/ Call(t)
        \/ Acquire(t)
        \/ Body(t)
        \/ Exit(t)
        \/ Strategies(t)
        \/ Crop(t)

\* a thread inside the with block keeps running until it has left it
SpecThreads ==
    /\ ThreadsInit
    /\ [][NextThreads]_vars
    /\ \A t \in Threads : WF_vars(Body(t)) /\ WF_vars(Exit(t))

----------------------------------------------------------------------------
(* save_counter_image and the archiving loop of vision_detect on their own *)

\* a candidate with only the keys the archiving reads
Box(x, y, w, h) == [x |-> x, y |-> y, width |-> w, height |-> h]

\* inside the frame, across its lower right corner, wholly to the right,
\* wholly to the left, wholly below
CropBoxes ==
    { Box(100, 100, 60, 60), Box(600, 440, 60, 60), Box(700, 100, 60, 60),
      Box(-100, 100, 50, 60), Box(200, 520, 60, 60) }

CropInit ==
    /\ ServiceInit /\ HistoryInit /\ MergeIdle
    /\ ScoreIdle /\ ProbeIdle /\ PlcIdle /\ ThreadsIdle
    /\ \E boxes \in DistinctSeqs(CropBoxes, MaxCrops) :
          \E disk \in [1..Len(boxes) -> SaveOutcomes] :
             crop_in = [objects |-> boxes, disk |-> disk]
    /\ crop_out = [pending |-> TRUE]
    /\ locals = [t \in Threads |-> 0]
    /\ subtractors = 0
    /\ poll_running = FALSE
    /\ poll_thread = 0
    /\ poll_loops = <<>>

\* vision_detect: if detected_objects: sort, number, save each crop
ArchiveCall ==
    /\ lastOp = "init"
    /\ crop_out' = ArchiveObjects(crop_in.objects, crop_in.disk)
    /\ lastOp' = "save_counter_image"
    /\ UNCHANGED <<serviceVars, lastArgs, before, processed, survivors,
                   result, response, mergeVars, idleVars, crop_in, raceVars,
                   pollVars>>

NextCrop == ArchiveCall

SpecCrop == CropInit /\ [][NextCrop]_vars

----------------------------------------------------------------------------
(* detect_objects called with the params of a request as they arrive *)

\* a value of the request body that is no JSON object: a list, a string
NotAMapping == [not_a_mapping |-> TRUE]

IsMapping(params) == "not_a_mapping" \notin DOMAIN params

\* params = {} : no key given
NoParams == [k \in {} |-> 0]

\* params.get(key, default) for the keys detect_objects reads
WithDefaults(params) ==
    [k \in DOMAIN DefaultParams \cup DOMAIN params |->
        IF k \in DOMAIN params THEN params[k] ELSE DefaultParams[k]]

\* parameter maps with one value out of its range: min_confidence above 1
\* and below 0, max_object_area 0, min_object_area negative and above the
\* maximum, a negative kernel size
OutOfRange ==
    { [min_confidence |-> 150], [min_confidence |-> -50],
      [max_object_area |-> 0], [min_object_area |-> -1],
      [min_object_area |-> 200000], [morphological_kernel_size |-> -1] }

RequestParams ==
    {NoParams, NotAMapping} \cup OutOfRange \cup
    {WithField(q, "use_background_subtraction", FALSE) : q \in OutOfRange}

\* detect_objects from its first line: the frame test, the extraction of
\* the parameters (outside the try block), then the guarded body
DetectCall(frame, method, params) ==
    IF frame.kind = "None"
    THEN DetectOutcome(frame, method, DefaultParams)
    ELSE IF ~IsMapping(params)
    THEN [sub |-> bg_subtractor, init |-> bg_initialized,
          frames |-> bg_learning_frames, created |-> FALSE, applied |-> FALSE,
          survivors |-> <<>>, result |-> [raised |-> "AttributeError"]]
    ELSE DetectOutcome(frame, method, WithDefaults(params))

ParamsInit ==
    /\ camera = "opened"
    /\ \E m \in ProbeModels :
          /\ bg_subtractor = m.sub
          /\ bg_initialized = m.init
          /\ bg_learning_frames = m.frames
          /\ processed = m.frames
    /\ lastOp = "init"
    /\ before = Model
    /\ lastArgs = NoCall
    /\ survivors = <<>>
    /\ result = NoResult
    /\ response = NoResult
    /\ probe \in [frame : ProbeImages \cup {NoFrame, BadFrame},
                  method : Methods, params : RequestParams, others : {0}]
    /\ probe_runs = <<>>
    /\ MergeIdle /\ ScoreIdle /\ PlcIdle /\ ThreadsIdle /\ LaterIdle

\* camera_service.detect_objects(frame, method=object_method,
\*                               params=object_params)
ParamCall ==
    /\ lastOp = "init"
    /\ LET out == DetectCall(probe.frame, probe.method, probe.params)
       IN  ApplyDetect(out, probe.method,
                       IF IsMapping(probe.params)
                       THEN WithDefaults(probe.params) ELSE probe.params)
    /\ lastOp' = "detect_objects"
    /\ response' = NoResult
    /\ UNCHANGED <<camera, probeVars, otherVars, scoreVars, plcVars,
                   threadVars>>

NextParams == ParamCall

SpecParams == ParamsInit /\ [][NextParams]_vars

----------------------------------------------------------------------------
(* detect_objects statement by statement: it takes no lock, so its reads   *)
(* and writes of the background model interleave with those of other calls *)
(* and with release_camera                                                  *)

\* the model when the threads start: never used, two frames and one frame
\* short of learned, learned
RaceModels ==
    ProbeModels \cup
    {[sub |-> "MOG2", init |-> FALSE, frames |-> BG_LEARN_FRAMES - 2]}

RaceInit ==
    /\ camera = "opened"
    /\ \E m \in RaceModels :
          /\ bg_subtractor = m.sub
          /\ bg_initialized = m.init
          /\ bg_learning_frames = m.frames
          /\ processed = m.frames
          /\ subtractors = IF m.sub = "None" THEN 0 ELSE 1
    /\ lastOp = "init"
    /\ before = Model
    /\ lastArgs = NoCall
    /\ survivors = <<>>
    /\ result = NoResult
    /\ response = NoResult
    /\ MergeIdle /\ ScoreIdle /\ ProbeIdle /\ PlcIdle /\ ThreadsIdle
    /\ crop_in = [pending |-> TRUE]
    /\ crop_out = [pending |-> TRUE]
    /\ locals = [t \in Threads |-> 0]
    /\ poll_running = FALSE
    /\ poll_thread = 0
    /\ poll_loops = <<>>

\* what a statement of detect_objects leaves alone
RaceFrame ==
    UNCHANGED <<camera, lastOp, lastArgs, before, survivors, result, response,
                mergeVars, cropVars, pollVars, scoreVars, probeVars, plcVars,
                lock, path, req, last_frame, frame_time>>

\* a request arrives: POST /api/camera/disconnect calls release_camera,
\* POST /api/vision/detect has read its frame and calls detect_objects with
\* the background subtraction switched on (the default)
RaceCall(t) ==
    /\ pc[t] = "idle"
    /\ \E p \in {"disconnect", "detect"} :
          /\ path' = [path EXCEPT ![t] = p]
          /\ pc' = [pc EXCEPT ![t] = IF p = "detect" THEN "check" ELSE "wait"]
          /\ p = "detect" => device_seq < MaxCaptures
          /\ device_seq' = IF p = "detect" THEN device_seq + 1 ELSE device_seq
    /\ ret' = [ret EXCEPT ![t] = Pending]
    /\ locals' = [locals EXCEPT ![t] = 0]
    /\ UNCHANGED <<camera, lastOp, lastArgs, before, survivors, result,
                   response, mergeVars, cropVars, pollVars, scoreVars,
                   probeVars, plcVars, lock, req, last_frame, frame_time,
                   serviceVars, processed, subtractors>>

\* if self.bg_subtractor is None:
CheckSubtractor(t) ==
    /\ pc[t] = "check"
    /\ pc' = [pc EXCEPT ![t] = IF bg_subtractor = "None" THEN "create"
                                ELSE "apply"]
    /\ UNCHANGED <<bg_subtractor, bg_initialized, bg_learning_frames,
                   processed, subtractors, locals, ret, device_seq>>
    /\ RaceFrame

\* self.bg_subtractor = cv2.createBackgroundSubtractorMOG2(...)
CreateSubtractor(t) ==
    /\ pc[t] = "create"
    /\ bg_subtractor' = "MOG2"
    /\ subtractors' = subtractors + 1
    /\ pc' = [pc EXCEPT ![t] = "reset"]
    /\ UNCHANGED <<bg_initialized, bg_learning_frames, processed, locals,
                   ret, device_seq>>
    /\ RaceFrame

\* self.bg_initialized = False; self.bg_learning_frames = 0
ResetCounters(t) ==
    /\ pc[t] = "reset"
    /\ bg_initialized' = FALSE
    /\ bg_learning_frames' = 0
    /\ pc' = [pc EXCEPT ![t] = "apply"]
    /\ UNCHANGED <<bg_subtractor, processed, subtractors, locals, ret,
                   device_seq>>
    /\ RaceFrame

\* fg_mask = self.bg_subtractor.apply(blurred, ...): AttributeError when the
\* attribute is None by now, caught by the except block of detect_objects
ApplySubtractor(t) ==
    /\ pc[t] = "apply"
    /\ IF bg_subtractor = "None"
       THEN /\ ret' = [ret EXCEPT ![t] = [kind |-> "error", val |-> 0,
                                          why |-> "AttributeError"]]
            /\ pc' = [pc EXCEPT ![t] = "idle"]
            /\ UNCHANGED processed
       ELSE /\ processed' = Min2(processed + 1, MaxProcessed)
            /\ pc' = [pc EXCEPT ![t] = "load"]
            /\ UNCHANGED ret
    /\ UNCHANGED <<bg_subtractor, bg_initialized, bg_learning_frames,
                   subtractors, locals, device_seq>>
    /\ RaceFrame

\* if not self.bg_initialized: self.bg_learning_frames += 1 (the load)
LoadCounter(t) ==
    /\ pc[t] = "load"
    /\ IF bg_initialized
       THEN /\ pc' = [pc EXCEPT ![t] = "return"]
            /\ UNCHANGED locals
       ELSE /\ pc' = [pc EXCEPT ![t] = "store"]
            /\ locals' = [locals EXCEPT ![t] = bg_learning_frames]
    /\ UNCHANGED <<bg_subtractor, bg_initialized, bg_learning_frames,
                   processed, subtractors, ret, device_seq>>
    /\ RaceFrame

\* self.bg_learning_frames += 1 (the store)
StoreCounter(t) ==
    /\ pc[t] = "store"
    /\ bg_learning_frames' = locals[t] + 1
    /\ pc' = [pc EXCEPT ![t] = "learned"]
    /\ UNCHANGED <<bg_subtractor, bg_initialized, processed, subtractors,
                   locals, ret, device_seq>>
    /\ RaceFrame

\* if self.bg_learning_frames >= 30: self.bg_initialized = True
SetLearned(t) ==
    /\ pc[t] = "learned"
    /\ bg_initialized' = IF BackgroundLearned(bg_learning_frames) THEN TRUE
                          ELSE bg_initialized
    /\ pc' = [pc EXCEPT ![t] = "return"]
    /\ UNCHANGED <<bg_subtractor, bg_learning_frames, processed,
                   subtractors, locals, ret, device_seq>>
    /\ RaceFrame

\* what the result says of the model: 'bg_initialized' and whether the
\* subtractor it speaks of still exists
Reported ==
    IF ~bg_initialized THEN "learning"
    ELSE IF bg_subtractor = "None" THEN "initialized_released"
    ELSE "initialized"

\* return {..., 'bg_initialized': self.bg_initialized,
\*         'bg_learning_frames': self.bg_learning_frames, ...}
ReturnResult(t) ==
    /\ pc[t] = "return"
    /\ ret' = [ret EXCEPT ![t] = [kind |-> "result",
                                  val |-> bg_learning_frames,
                                  why |-> Reported]]
    /\ pc' = [pc EXCEPT ![t] = "idle"]
    /\ UNCHANGED <<bg_subtractor, bg_initialized, bg_learning_frames,
                   processed, subtractors, locals, device_seq>>
    /\ RaceFrame

NextRace ==
    \E t \in Threads :
        \/ RaceCall(t)
        \/ Acquire(t)
        \/ Body(t)
        \/ Exit(t)
        \/ CheckSubtractor(t)
        \/ CreateSubtractor(t)
        \/ ResetCounters(t)
        \/ ApplySubtractor(t)
        \/ LoadCounter(t)
        \/ StoreCounter(t)
        \/ SetLearned(t)
        \/ ReturnResult(t)

SpecRace == RaceInit /\ [][NextRace]_vars

----------------------------------------------------------------------------
(* The polling thread of app.py: the globals poll_running and poll_thread, *)
(* the socket handlers that start and stop polling, and poll_loop          *)

\* the module is loaded: poll_thread = None, poll_running = False
PollInit ==
    /\ ServiceInit /\ HistoryInit /\ MergeIdle
    /\ ScoreIdle /\ ProbeIdle /\ PlcIdle /\ ThreadsIdle /\ LaterIdle

\* poll_thread.is_alive() of loop thread i
IsAlive(i) == poll_loops[i] # "stopped"

\* if poll_thread and poll_thread.is_alive()
ThreadAlive == poll_thread # 0 /\ IsAlive(poll_thread)

\* what a step of the polling code leaves alone
PollFrame ==
    UNCHANGED <<serviceVars, lastArgs, before, processed, survivors, result,
                response, mergeVars, cropVars, raceVars, scoreVars, probeVars,
                plcVars, lock, req, device_seq, last_frame, frame_time>>

\* __main__: start_polling_thread() before socketio.run, so before any
\* handler can run
Startup ==
    /\ lastOp = "init"
    /\ poll_running' = TRUE
    /\ poll_loops' = Append(poll_loops, "started")
    /\ poll_thread' = Len(poll_loops) + 1
    /\ lastOp' = "start_polling_thread"
    /\ UNCHANGED <<pc, path, ret>>
    /\ PollFrame

\* a 'start_polling' or 'stop_polling' event arrives and its handler is
\* entered on a thread of the server
PollCall(t) ==
    /\ lastOp # "init"
    /\ pc[t] = "idle"
    /\ \E p \in {"start_polling", "stop_polling"} :
          /\ path' = [path EXCEPT ![t] = p]
          /\ pc' = [pc EXCEPT ![t] = IF p = "start_polling" THEN "test"
                                      ELSE "stop"]
          /\ lastOp' = IF p = "start_polling" THEN "handle_start_polling"
                        ELSE lastOp
    /\ ret' = [ret EXCEPT ![t] = Pending]
    /\ UNCHANGED pollVars
    /\ PollFrame

\* handle_start_polling: if not poll_running:
TestRunning(t) ==
    /\ pc[t] = "test"
    /\ pc' = [pc EXCEPT ![t] = IF poll_running THEN "emit" ELSE "alive"]
    /\ UNCHANGED <<pollVars, lastOp, path, ret>>
    /\ PollFrame

\* start_polling_thread: if poll_thread and poll_thread.is_alive(): return
CheckAlive(t) ==
    /\ pc[t] = "alive"
    /\ pc' = [pc EXCEPT ![t] = IF ThreadAlive THEN "emit" ELSE "set"]
    /\ UNCHANGED <<pollVars, lastOp, path, ret>>
    /\ PollFrame

\* start_polling_thread: poll_running = True
SetRunning(t) ==
    /\ pc[t] = "set"
    /\ poll_running' = TRUE
    /\ pc' = [pc EXCEPT ![t] = "start"]
    /\ UNCHANGED <<poll_thread, poll_loops, lastOp, path, ret>>
    /\ PollFrame

\* start_polling_thread: poll_thread = threading.Thread(target=poll_loop);
\* poll_thread.start()
StartThread(t) ==
    /\ pc[t] = "start"
    /\ Len(poll_loops) < MaxLoops
    /\ poll_loops' = Append(poll_loops, "started")
    /\ poll_thread' = Len(poll_loops) + 1
    /\ pc' = [pc EXCEPT ![t] = "emit"]
    /\ UNCHANGED <<poll_running, lastOp, path, ret>>
    /\ PollFrame

\* handle_stop_polling: poll_running = False
StopRunning(t) ==
    /\ pc[t] = "stop"
    /\ poll_running' = FALSE
    /\ lastOp' = "handle_stop_polling"
    /\ pc' = [pc EXCEPT ![t] = "emit"]
    /\ UNCHANGED <<poll_thread, poll_loops, path, ret>>
    /\ PollFrame

\* emit('polling_status', {'running': True}) or {'running': False}; the
\* start handler is the last word on polling unless a stop came meanwhile
EmitStatus(t) ==
    /\ pc[t] = "emit"
    /\ ret' = [ret EXCEPT ![t] =
                  [kind |-> "polling_status",
                   val |-> IF path[t] = "start_polling" THEN 1 ELSE 0,
                   why |-> path[t]]]
    /\ lastOp' = IF path[t] = "start_polling"
                     /\ lastOp = "handle_start_polling"
                  THEN "polling_status_running"
                  ELSE lastOp
    /\ pc' = [pc EXCEPT ![t] = "idle"]
    /\ UNCHANGED <<pollVars, path>>
    /\ PollFrame

\* poll_loop: while poll_running: one round and the sleep; else the thread
\* ends
LoopTest(i) ==
    /\ IsAlive(i)
    /\ poll_loops' = [poll_loops EXCEPT ![i] = IF poll_running THEN "polling"
                                               ELSE "stopped"]
    /\ UNCHANGED <<poll_running, poll_thread, lastOp, pc, path, ret>>
    /\ PollFrame

NextPoll ==
    \/ Startup
    \/ \E t \in Threads :
          \/ PollCall(t)
          \/ TestRunning(t)
          \/ CheckAlive(t)
          \/ SetRunning(t)
          \/ StartThread(t)
          \/ StopRunning(t)
          \/ EmitStatus(t)
    \/ \E i \in 1..Len(poll_loops) : LoopTest(i)

SpecPoll == PollInit /\ [][NextPoll]_vars

----------------------------------------------------------------------------
(* PLCClient.write_m_bit called by two request threads for two bits of the *)
(* same Merker byte: the read and the write are separate snap7 calls       *)

\* the bit each thread's route writes: bit_map 'start' -> (0, 0) for
\* POST /api/plc/control/start, 'stop' -> (0, 1) for /api/plc/control/stop
ControlBit(t) == IF t = "A" THEN 0 ELSE 1

\* locals of a write_m_bit call: the value argument and the bytearray data
NoWrite == [value |-> FALSE, data |-> [b \in MBits |-> FALSE]]

BitsInit ==
    /\ ServiceInit /\ HistoryInit /\ MergeIdle
    /\ ScoreIdle /\ ProbeIdle /\ ThreadsIdle
    /\ fault_bit_enabled = FALSE
    /\ fault_bit_bit = 0
    /\ plc_available = TRUE
    /\ plc_connected = TRUE
    /\ plc_link \in BOOLEAN
    /\ m_byte \in [MBits -> BOOLEAN]
    /\ connect_attempts = 1
    /\ plc_before = PlcState
    /\ plc_result = NoResult
    /\ crop_in = [pending |-> TRUE]
    /\ crop_out = [pending |-> TRUE]
    /\ locals = [t \in Threads |-> NoWrite]
    /\ subtractors = 0
    /\ poll_running = FALSE
    /\ poll_thread = 0
    /\ poll_loops = <<>>

\* what a statement of write_m_bit leaves alone
BitsFrame ==
    UNCHANGED <<serviceVars, lastOp, lastArgs, before, processed, survivors,
                result, response, mergeVars, cropVars, pollVars, subtractors,
                scoreVars, probeVars, fault_bit_enabled, fault_bit_bit,
                plc_available, plc_connected, plc_link, connect_attempts,
                plc_before, plc_result, lock, req, device_seq, last_frame,
                frame_time>>

\* set_control_bit: value = data.get('value', False), then
\* plc_client.write_control_bit(bit_name, value)
BitCall(t) ==
    /\ pc[t] = "idle"
    /\ \E value \in BOOLEAN :
          locals' = [locals EXCEPT ![t] = [value |-> value, data |-> @.data]]
    /\ path' = [path EXCEPT ![t] = "control"]
    /\ pc' = [pc EXCEPT ![t] = "connected"]
    /\ ret' = [ret EXCEPT ![t] = Pending]
    /\ UNCHANGED m_byte
    /\ BitsFrame

\* write_m_bit: if not self.is_connected(): return False
TestConnected(t) ==
    /\ pc[t] = "connected"
    /\ IF IsConnected
       THEN /\ pc' = [pc EXCEPT ![t] = "read"]
            /\ UNCHANGED ret
       ELSE /\ pc' = [pc EXCEPT ![t] = "idle"]
            /\ ret' = [ret EXCEPT ![t] = [kind |-> "bool", val |-> 0,
                                          why |-> "not_connected"]]
    /\ UNCHANGED <<m_byte, locals, path>>
    /\ BitsFrame

\* data = bytearray(self.client.mb_read(byte_offset, 1)); an exception of
\* snap7 is caught and False returned
ReadByte(t) ==
    /\ pc[t] = "read"
    /\ \E dev \in {"ok", "raises"} :
          IF dev = "ok"
          THEN /\ locals' = [locals EXCEPT ![t].data = m_byte]
               /\ pc' = [pc EXCEPT ![t] = "write"]
               /\ UNCHANGED ret
          ELSE /\ pc' = [pc EXCEPT ![t] = "idle"]
               /\ ret' = [ret EXCEPT ![t] = [kind |-> "bool", val |-> 0,
                                             why |-> "mb_read_raises"]]
               /\ UNCHANGED locals
    /\ UNCHANGED <<m_byte, path>>
    /\ BitsFrame

\* set_bool(data, 0, bit_offset, value);
\* self.client.mb_write(byte_offset, data); return True
WriteByte(t) ==
    /\ pc[t] = "write"
    /\ m_byte' = [locals[t].data EXCEPT ![ControlBit(t)] = locals[t].value]
    /\ ret' = [ret EXCEPT ![t] = [kind |-> "bool", val |-> 1,
                                  why |-> "written"]]
    /\ pc' = [pc EXCEPT ![t] = "idle"]
    /\ UNCHANGED <<locals, path>>
    /\ BitsFrame

NextBits ==
    \E t \in Threads :
        \/ BitCall(t)
        \/ TestConnected(t)
        \/ ReadByte(t)
        \/ WriteByte(t)

SpecBits == BitsInit /\ [][NextBits]_vars

----------------------------------------------------------------------------
(* Properties *)

\* the last operation was a detect_objects call (direct or inside a handler)
IsResult == "objects" \in DOMAIN result

\* the last operation answered with the fields of a detection
IsDetectionResponse == "objects" \in DOMAIN response

\* a candidate obtained from the foreground mask of the background model:
\* tagged 'background', or merged while only the motion strategy ran
IsMotion(o) ==
    \/ o.method = "background"
    \/ o.method = "merged" /\ lastArgs.params.use_background_subtraction

HasMotion(objects) == \E i \in 1..Len(objects) : IsMotion(objects[i])

\* the model is learned exactly when 30 frames went through the subtractor
ReadyAtThirty ==
    bg_subtractor # "None" =>
        (bg_initialized <=> processed >= BG_LEARN_FRAMES)

\* C1 (as stated): the model is READY after exactly 30 processed frames and
\* a motion candidate is returned by the 31st processed frame at the
\* earliest, never by one of the first 30.
C1_MotionFromFrame31 ==
    /\ ReadyAtThirty
    /\ IsResult /\ HasMotion(result.objects) => processed >= BG_LEARN_FRAMES + 1

\* C1 (amended): the model is READY after exactly 30 processed frames and a
\* motion candidate is returned by the 30th processed frame at the earliest,
\* never by one of the first 29.
C1_MotionFromFrame30 ==
    /\ ReadyAtThirty
    /\ IsResult /\ HasMotion(result.objects) => processed >= BG_LEARN_FRAMES

\* the 30th processed frame itself returns a motion candidate
C1_Witness ==
    /\ IsResult
    /\ processed = BG_LEARN_FRAMES
    /\ before.frames = BG_LEARN_FRAMES - 1
    /\ HasMotion(result.objects)

\* C2 (as stated): a call that ends with the model not learned returns an
\* empty candidate list, whatever the method selector.
C2_EmptyWhileLearning ==
    IsResult /\ ~bg_initialized => result.objects = <<>>

\* C2 (amended): a call that ends with the model not learned returns no
\* motion candidate under any selector, and an empty list when background
\* subtraction is enabled and the selector is not 'circle'.
C2_NoMotionWhileLearning ==
    IsResult /\ ~bg_initialized =>
        /\ ~HasMotion(result.objects)
        /\ (lastArgs.params.use_background_subtraction
            /\ lastArgs.method # "circle") => result.objects = <<>>

\* a frame went through the subtractor of a model still learning and the
\* call returned nothing
C2_Witness ==
    /\ IsResult
    /\ "error" \notin DOMAIN result
    /\ ~bg_initialized
    /\ bg_learning_frames > before.frames
    /\ lastArgs.method = "background"
    /\ result.objects = <<>>

\* C3: after release_camera the model is UNINITIALIZED (no subtractor, not
\* learned, zero frames), and the detection call that next creates a
\* subtractor and processes a frame counts it as frame 1 of a new warm-up.
C3_ReleaseResets ==
    /\ lastOp = "release_camera" =>
          /\ bg_subtractor = "None"
          /\ ~bg_initialized
          /\ bg_learning_frames = 0
    /\ (IsResult /\ before.sub = "None" /\ processed >= 1) =>
          /\ bg_learning_frames = 1
          /\ ~bg_initialized

\* a learned model was released
C3_Witness ==
    /\ lastOp = "release_camera"
    /\ before.init
    /\ before.frames = BG_LEARN_FRAMES
    /\ bg_subtractor = "None"

\* C4: after initialize_camera the background model is fresh: not learned,
\* zero frames observed.
C4_ConnectResets ==
    lastOp = "initialize_camera" =>
        ~bg_initialized /\ bg_learning_frames = 0

Consistent(r) ==
    /\ r.objects_found <=> Len(r.objects) > 0
    /\ r.object_count = Len(r.objects)

\* C5: in what detect_objects returns and in what /api/vision/detect
\* answers, objects_found holds exactly when the list is non-empty and
\* object_count is its length.
C5_CountMatchesList ==
    /\ IsResult => Consistent(result)
    /\ IsDetectionResponse => Consistent(response)

\* several candidates survived, one was returned and answered
C5_Witness ==
    /\ IsResult
    /\ Len(survivors) > 1
    /\ result.object_count = 1
    /\ IsDetectionResponse
    /\ response.objects_found

\* C8: a result holds at most one candidate, and when candidates survive
\* filtering and merging it is one of the most confident of them.
C8_SingleBest ==
    IsResult =>
        /\ Len(result.objects) <= 1
        /\ Len(survivors) > 0 =>
              /\ Len(result.objects) = 1
              /\ \E i \in 1..Len(survivors) : survivors[i] = result.objects[1]
              /\ \A i \in 1..Len(survivors) :
                    survivors[i].confidence <= result.objects[1].confidence

\* two survivors, the more confident one second
C8_Witness ==
    /\ IsResult
    /\ Len(survivors) = 2
    /\ survivors[1].confidence < survivors[2].confidence
    /\ result.objects = <<survivors[2]>>

\* C9: every returned candidate has confidence at least the call's
\* min_confidence.
C9_AboveMinConfidence ==
    IsResult =>
        \A i \in 1..Len(result.objects) :
            result.objects[i].confidence >= lastArgs.params.min_confidence

\* C10: the counterNumber values of a response with N candidates are 1..N,
\* each used once; candidates at x = 50, 150, 300 are numbered 1, 2, 3.
C10_NumbersContiguous ==
    IsDetectionResponse =>
        LET objs == response.objects
            N == Len(objs)
        IN  /\ \A i \in 1..N : objs[i].counterNumber \in 1..N
            /\ \A i, j \in 1..N :
                  i # j => objs[i].counterNumber # objs[j].counterNumber
            /\ {objs[i].x : i \in 1..N} = {50, 150, 300} /\ N = 3 =>
                  \A i \in 1..N :
                      objs[i].counterNumber =
                          (CASE objs[i].x = 50 -> 1
                             [] objs[i].x = 150 -> 2
                             [] objs[i].x = 300 -> 3)

\* the vision service reported three candidates at x = 50, 150, 300
C10_Witness ==
    /\ IsDetectionResponse
    /\ Len(response.objects) = 3
    /\ {response.objects[i].x : i \in 1..3} = {50, 150, 300}

\* _merge_nearby_objects has returned
MergeDone == lastOp = "_merge_nearby_objects"

\* the box of o contains the box of c
BoxContains(o, c) ==
    /\ o.x <= c.x
    /\ o.y <= c.y
    /\ c.x + c.width <= o.x + o.width
    /\ c.y + c.height <= o.y + o.height

\* C6: any two candidates of the input whose centers are within the merge
\* distance end up in one and the same output candidate, whose box contains
\* both; two candidates 10 px apart with distance 50 give one candidate.
C6_NearPairsMerge ==
    MergeDone /\ Len(merge_in) >= 2 =>
        LET groups == MergeGroups(merge_in, merge_threshold)
        IN  /\ \A i, j \in 1..Len(merge_in) :
                  (i # j /\ Near(merge_in[i], merge_in[j], merge_threshold)) =>
                      \E g \in 1..Len(groups) :
                          /\ i \in Range(groups[g])
                          /\ j \in Range(groups[g])
                          /\ BoxContains(merge_out[g], merge_in[i])
                          /\ BoxContains(merge_out[g], merge_in[j])
            /\ (/\ Len(merge_in) = 2
                /\ merge_threshold = 50
                /\ merge_in[1].center[2] = merge_in[2].center[2]
                /\ merge_in[1].center[1] - merge_in[2].center[1] \in {-10, 10})
               => Len(merge_out) = 1

\* the keys of a candidate built by merging
MergedKeys ==
    {"type", "x", "y", "width", "height", "area", "center", "confidence",
     "method"}

\* o has the union box, the summed area and the largest confidence of group
MergedFrom(o, group) ==
    LET n == Len(group)
    IN  /\ \A k \in 1..n : BoxContains(o, group[k])
        /\ \E k \in 1..n : group[k].x = o.x
        /\ \E k \in 1..n : group[k].y = o.y
        /\ \E k \in 1..n : group[k].x + group[k].width = o.x + o.width
        /\ \E k \in 1..n : group[k].y + group[k].height = o.y + o.height
        /\ o.area = SeqSum([k \in 1..n |-> group[k].area])
        /\ \A k \in 1..n : group[k].confidence <= o.confidence
        /\ \E k \in 1..n : group[k].confidence = o.confidence

\* the candidates of the g-th group of the last merge
GroupMembers(g) ==
    LET idx == MergeGroups(merge_in, merge_threshold)[g]
    IN  [k \in 1..Len(idx) |-> merge_in[idx[k]]]

MergedOutputs ==
    {g \in 1..Len(merge_out) :
        Len(MergeGroups(merge_in, merge_threshold)[g]) > 1}

\* C7 (as stated): a merged candidate has the union box, the summed area,
\* the largest confidence of its group, and a provenance count equal to the
\* number of candidates merged.
C7_MergedWithProvenance ==
    MergeDone =>
        \A g \in MergedOutputs :
            /\ MergedFrom(merge_out[g], GroupMembers(g))
            /\ \E k \in DOMAIN merge_out[g] \ MergedKeys :
                  merge_out[g][k] = Len(GroupMembers(g))

\* C7 (amended): a merged candidate has the union box, the summed area and
\* the largest confidence of its group; it carries no provenance count, only
\* the method tag 'merged'.
C7_MergedFields ==
    MergeDone =>
        \A g \in MergedOutputs :
            /\ MergedFrom(merge_out[g], GroupMembers(g))
            /\ DOMAIN merge_out[g] = MergedKeys
            /\ merge_out[g].method = "merged"

\* three candidates were merged into one
C7_Witness ==
    /\ MergeDone
    /\ Len(merge_in) = 3
    /\ Len(merge_out) = 1
    /\ merge_out[1].method = "merged"

\* C11: within one response, a candidate whose center lies further left has
\* the smaller counterNumber, whatever the widths of the candidates.
C11_OrderedByCenter ==
    IsDetectionResponse =>
        LET objs == response.objects
        IN  \A i, j \in 1..Len(objs) :
                objs[i].center[1] < objs[j].center[1] =>
                    objs[i].counterNumber < objs[j].counterNumber

\* the box of candidate o lies inside the frame
InsideFrame(o) ==
    /\ 0 <= o.x
    /\ 0 <= o.y
    /\ o.x + o.width <= FRAME_WIDTH
    /\ o.y + o.height <= FRAME_HEIGHT

\* C12: every candidate returned to the caller, by detect_objects or in a
\* detection response, has its bounding box inside the frame.
C12_BoxInsideFrame ==
    /\ IsResult =>
          \A i \in 1..Len(result.objects) : InsideFrame(result.objects[i])
    /\ IsDetectionResponse =>
          \A i \in 1..Len(response.objects) : InsideFrame(response.objects[i])

\* the candidates in list a all occur in list b
AllIn(a, b) == Range(a) \subseteq Range(b)

\* C17: a call that requests the contour, blob or circle strategy gets that
\* strategy's candidates for the frame, whatever the state of the background
\* model and whether or not background subtraction is enabled; no motion
\* candidate is emitted by a call that ends with the model not learned.
C17_StatelessStrategiesEmit ==
    \A i \in 1..Len(probe_runs) :
        LET run == probe_runs[i]
            regions == probe.frame.regions
        IN  /\ probe.method = "contour" =>
                  AllIn(ContourObjects(regions, probe.params), run.survivors)
            /\ probe.method = "blob" =>
                  AllIn(BlobObjects(regions, probe.params), run.survivors)
            /\ probe.method = "circle" =>
                  AllIn(CircleObjects(regions, probe.params), run.survivors)
            /\ ~run.learned =>
                  \A k \in 1..Len(run.survivors) :
                      run.survivors[k].method # "background"

\* C18: two calls with method 'circle' on the same frame with the same
\* params return the same candidates, whatever happened before and between.
C18_CircleDeterministic ==
    (probe_runs # <<>> /\ probe.method = "circle" /\ Len(probe_runs) = 2) =>
        probe_runs[1].objects = probe_runs[2].objects

\* the confidences have been computed
ScoreDone == lastOp = "confidence"

\* C13: the motion score, the circle score, the fixed scores and the
\* maximum kept by merging all lie in [0, 1] (0..100 hundredths), for every
\* area, area limit, solidity and circularity.
C13_ConfidenceInUnitRange ==
    ScoreDone =>
        \A k \in DOMAIN score_out :
            \A i \in 1..Len(score_out[k]) :
                0 <= score_out[k][i] /\ score_out[k][i] <= 100

\* a contour just below the area limit with solidity 1 and circularity 1
C13_Witness ==
    /\ ScoreDone
    /\ score_in.sol = 100 /\ score_in.circ = 100
    /\ score_in.area = DEFAULT_MAX_AREA - 1
    /\ score_out.motion # <<>> /\ score_out.motion[1] >= 99
    /\ score_out.circle # <<>> /\ score_out.circle[1] >= 99
    /\ score_out.merged = <<SeqMax(score_out.motion \o score_out.circle)>>

\* C19: a detection response produced while the fault bit is enabled and
\* the controller is not connected carries plc_write = {written: false,
\* reason: 'plc_not_connected'}.
C19_ResponseCarriesPlcWrite ==
    (IsDetectionResponse /\ fault_bit_enabled /\ plc_available
        /\ ~IsConnected) =>
        /\ "plc_write" \in DOMAIN response
        /\ response.plc_write =
              [written |-> FALSE, reason |-> "plc_not_connected"]

\* write_plc_fault_bit has returned
FaultBitDone == lastOp = "write_plc_fault_bit"

\* C20: write_plc_fault_bit changes the configured bit, and nothing else,
\* only when the fault bit is enabled and the controller is connected, and
\* then answers written: true with the value written; in every other case
\* the controller memory is as before and the answer is written: false with
\* a reason.  It never connects and always returns an answer.
C20_FaultBitWrite ==
    FaultBitDone =>
        /\ "written" \in DOMAIN plc_result
        /\ connect_attempts = plc_before.attempts
        /\ plc_connected = plc_before.connected
        /\ plc_link = plc_before.link
        /\ plc_result.written =>
              /\ plc_before.enabled /\ plc_before.available
              /\ plc_before.connected /\ plc_before.link
              /\ "value" \in DOMAIN plc_result
              /\ m_byte = [plc_before.m EXCEPT
                              ![fault_bit_bit] = plc_result.value]
        /\ ~plc_result.written =>
              /\ m_byte = plc_before.m
              /\ "reason" \in DOMAIN plc_result

\* the bit was switched on in a connected controller
C20_Witness ==
    /\ FaultBitDone
    /\ plc_result.written
    /\ plc_result.value
    /\ ~plc_before.m[fault_bit_bit]
    /\ m_byte[fault_bit_bit]

\* threads inside a with self.lock block: opening, reading or closing
InsideLock == {t \in Threads : pc[t] \in {"in", "out"}}

\* C14: at most one thread is inside initialize_camera, read_frame or
\* release_camera at a time, only that thread holds the lock, and a held
\* lock is always freed again, whatever the device did.
C14_DeviceExclusive ==
    /\ [](/\ Cardinality(InsideLock) <= 1
          /\ \A t \in Threads : (lock = t) <=> (t \in InsideLock))
    /\ \A t \in Threads : (lock = t) ~> (lock = "free")

\* one thread is inside the lock, after the device threw, and the other waits
C14_Witness ==
    \E t, u \in Threads :
        /\ pc[t] = "out"
        /\ ret[t].why = "throws"
        /\ lock = t
        /\ pc[u] = "wait"

\* thread t has come back from read_frame
ReadReturned(t) ==
    /\ Method(path[t]) = "read_frame"
    /\ pc[t] \notin {"idle", "wait", "in"}

\* C15: read_frame never raises: it returns the frame just captured, or
\* None; last_frame and frame_time change only in a step in which a read
\* captures a frame, and then to that frame.
C15_ReadFrameTotal ==
    /\ [](\A t \in Threads :
             ReadReturned(t) =>
                 \/ ret[t].kind = "none"
                 \/ /\ ret[t].kind = "frame"
                    /\ ret[t].val = req[t].frame
                    /\ ret[t].val > 0)
    /\ [][(last_frame' # last_frame \/ frame_time' # frame_time) =>
             \E t \in Threads :
                 /\ pc[t] = "in" /\ pc'[t] = "out"
                 /\ ret'[t].kind = "frame"
                 /\ ret'[t].val = last_frame'
                 /\ frame_time' = last_frame']_vars

\* a read on an open camera ended with the device throwing, and a frame
\* captured earlier is still the last one
C15_Witness ==
    \E t \in Threads :
        /\ ReadReturned(t)
        /\ ret[t].why = "throws"
        /\ ret[t].kind = "none"
        /\ last_frame > 0

\* C16: a detection request captures exactly one frame, and the detector
\* and the archival crop of that request work on that frame only.
C16_OneFramePerRequest ==
    \A t \in Threads :
        pc[t] \in {"strategies", "crop"} =>
            /\ req[t].captures = 1
            /\ req[t].used \subseteq {req[t].frame}

\* the crop of a request is about to be taken from the request's frame
\* while another thread has captured a newer one
C16_Witness ==
    \E t \in Threads :
        /\ pc[t] = "crop"
        /\ req[t].used = {req[t].frame}
        /\ last_frame > req[t].frame

----------------------------------------------------------------------------
(* Archiving of the crops *)

\* the archiving loop has run
Archived == "objects" \in DOMAIN crop_out

\* keys of a returned candidate that say it was not saved and why: whatever
\* it carries beyond the detector's keys, its number and the saved path
SaveAnnotation(o, box) ==
    DOMAIN o \ (DOMAIN box \cup {"counterNumber", "saved_image_path"})

\* C21: when the crop of a candidate is skipped or its write fails, the
\* response still lists every numbered candidate, the other candidates are
\* still archived, and the affected candidate is marked unsaved (it has no
\* saved path) together with a reason.
C21_UnsavedMarkedWithReason ==
    Archived =>
        /\ Len(crop_out.objects) = Len(crop_in.objects)
        /\ \A i \in 1..Len(crop_out.objects) :
              LET o == crop_out.objects[i]
              IN  /\ o.counterNumber = i
                  /\ i \in crop_out.files <=> "saved_image_path" \in DOMAIN o
                  /\ i \notin crop_out.files =>
                        SaveAnnotation(o, crop_out.boxes[i]) # {}

\* the box grown by the padding has no pixel in common with the frame
OutsideFrame(box) ==
    \/ box.x + box.width + SAVE_PADDING <= 0
    \/ box.x - SAVE_PADDING >= FRAME_WIDTH
    \/ box.y + box.height + SAVE_PADDING <= 0
    \/ box.y - SAVE_PADDING >= FRAME_HEIGHT

\* C22: for every candidate box, also one partly or wholly outside the
\* frame, the crop bounds satisfy 0 <= x1 <= x2 <= width and
\* 0 <= y1 <= y2 <= height, and when the grown box clamped to the frame has
\* zero area nothing is written and None is returned.
C22_CropClampedToFrame ==
    Archived =>
        \A i \in 1..Len(crop_out.bounds) :
            LET b == crop_out.bounds[i]
            IN  /\ 0 <= b.x1 /\ b.x1 <= b.x2 /\ b.x2 <= FRAME_WIDTH
                /\ 0 <= b.y1 /\ b.y1 <= b.y2 /\ b.y2 <= FRAME_HEIGHT
                /\ OutsideFrame(crop_out.boxes[i]) =>
                      /\ i \notin crop_out.files
                      /\ "saved_image_path" \notin DOMAIN crop_out.objects[i]

----------------------------------------------------------------------------
(* Life cycle of the background model *)

\* the flag and the counter agree and the counter stops at 30
ModelConsistent ==
    /\ bg_initialized <=> bg_learning_frames >= BG_LEARN_FRAMES
    /\ bg_learning_frames <= BG_LEARN_FRAMES
    /\ bg_subtractor = "None" => ~bg_initialized /\ bg_learning_frames = 0

\* the last operation moved the model, from what it was when the operation
\* began, along UNINITIALIZED -> LEARNING -> READY, or back to UNINITIALIZED
\* when it was release_camera
ModelMoved ==
    /\ (~before.init /\ bg_initialized) => before.sub # "None"
    /\ (before.sub # "None" /\ bg_subtractor = "None") =>
          lastOp \in {"release_camera", "camera_disconnect"}
    /\ lastOp \notin {"release_camera", "camera_disconnect"} =>
          /\ bg_learning_frames \in {before.frames, before.frames + 1}
          /\ before.init =>
                /\ bg_initialized
                /\ bg_learning_frames = before.frames
                /\ bg_subtractor = before.sub

\* C25: the background model only moves UNINITIALIZED -> LEARNING -> READY
\* and back on release: the learned flag is true exactly when the frame
\* counter is at least 30, the counter never exceeds 30, and once READY the
\* flag and the counter stay unchanged over detection calls until release.
C25_ModelLifecycle == ModelConsistent /\ ModelMoved

\* a detection call has put a frame through a model that was already READY
C25_Witness ==
    /\ lastOp = "detect_objects"
    /\ before.init
    /\ bg_initialized
    /\ RunsBackground(lastArgs.method, lastArgs.params)
    /\ processed > BG_LEARN_FRAMES

----------------------------------------------------------------------------
(* Failures and parameters of detect_objects *)

\* the result of a call that found nothing
IsEmptyResult(r) ==
    /\ "objects" \in DOMAIN r
    /\ ~r.objects_found
    /\ r.object_count = 0
    /\ r.objects = <<>>

\* C23: detect_objects never raises; without a frame or on an internal
\* failure it returns the empty result with an error reason, and an image
\* with nothing to detect gives the empty result without an error.
C23_NeverRaises ==
    lastOp = "detect_objects" =>
        /\ "raised" \notin DOMAIN result
        /\ probe.frame.kind \in {"None", "malformed"} =>
              IsEmptyResult(result) /\ "error" \in DOMAIN result
        /\ (probe.frame.kind = "image" /\ probe.frame.regions = <<>>
              /\ KernelSize(lastArgs.params) > 0) =>
              IsEmptyResult(result) /\ "error" \notin DOMAIN result

\* the parameters of p whose value is out of range
BadKeys(p) ==
    {k \in DOMAIN p :
        \/ k = "min_confidence" /\ (p[k] < 0 \/ p[k] > 100)
        \/ k = "min_object_area" /\ (p[k] < 0 \/ p[k] > p.max_object_area)
        \/ k = "max_object_area" /\ p[k] <= 0
        \/ k = "morphological_kernel_size" /\ p[k] <= 0}

\* the values an out-of-range parameter may be taken as: clamped into its
\* range, or the default
Replacements(p, k) ==
    CASE k = "min_confidence" ->
            {Max2(0, Min2(p[k], 100)), DEFAULT_MIN_CONFIDENCE}
      [] k = "min_object_area" ->
            {Max2(0, Min2(p[k], p.max_object_area)), DEFAULT_MIN_AREA}
      [] k = "max_object_area" ->
            {Max2(p[k], 1), Max2(p[k], p.min_object_area), DEFAULT_MAX_AREA}
      [] OTHER -> {Max2(p[k], 1), DEFAULT_KERNEL_SIZE}

\* a call with an out-of-range parameter returns what the call with the
\* parameter clamped or defaulted returns
ParamStep ==
    (lastOp' = "detect_objects" /\ IsMapping(probe.params)
        /\ probe.frame.kind = "image") =>
        LET p == WithDefaults(probe.params)
        IN  \A k \in BadKeys(p) :
               \E v \in Replacements(p, k) :
                  result' = DetectOutcome(probe.frame, probe.method,
                                          WithField(p, k, v)).result

\* C24: for any out-of-range per-call parameter detect_objects behaves as
\* for the value clamped into range or replaced by its default, and the
\* call does not fail.
C24_OutOfRangeClamped == [][ParamStep]_vars

----------------------------------------------------------------------------
(* The background model under overlapping calls *)

\* no call is in progress
Quiescent == \A t \in Threads : pc[t] = "idle"

\* C26: if release_camera runs while a detect_objects call is in flight,
\* the reset still holds once both have finished: whenever no call is in
\* progress an absent subtractor implies learned false and a frame count of
\* 0, and no result reports bg_initialized true for a released model.
C26_ReleaseResetSurvives ==
    /\ Quiescent =>
          (bg_subtractor = "None" =>
              ~bg_initialized /\ bg_learning_frames = 0)
    /\ \A t \in Threads : ret[t].why # "initialized_released"

\* C27: when detection requests overlap (and nothing is released), exactly
\* one subtractor is created and every processed frame increments the frame
\* count exactly once, so the model is READY after exactly 30 processed
\* frames in total.
C27_NoLostUpdates ==
    (Quiescent /\ camera = "opened") =>
        /\ processed > 0 => subtractors = 1
        /\ bg_learning_frames = Min2(processed, BG_LEARN_FRAMES)
        /\ bg_initialized <=> processed >= BG_LEARN_FRAMES

----------------------------------------------------------------------------
(* Polling *)

\* the poll_loop threads that are alive
LiveLoops == {i \in 1..Len(poll_loops) : IsAlive(i)}

\* C28: whenever handle_start_polling has finished and reported running:
\* true, with no stop_polling since it was entered, a polling loop is
\* running: poll_running is true and a poll thread is alive.
C28_ReportedRunningRuns ==
    (Quiescent /\ lastOp = "polling_status_running") =>
        poll_running /\ LiveLoops # {}

\* C29: at most one poll_loop thread is alive at any time.
C29_OnePollLoop == Cardinality(LiveLoops) <= 1

----------------------------------------------------------------------------
(* Concurrent writes to one Merker byte *)

\* the last write_m_bit call of thread t returned True
WroteBit(t) == ret[t].kind = "bool" /\ ret[t].val = 1

\* C30: concurrent write_m_bit calls on different bits of the same byte
\* both take effect: once both calls have returned true, each bit holds
\* the value its own call wrote.
C30_BothBitsWritten ==
    (Quiescent /\ \A t \in Threads : WroteBit(t)) =>
        \A t \in Threads : m_byte[ControlBit(t)] = locals[t].value

====
